---- MODULE Spec2Model ----
(***************************************************************************)
(* A model of the Texas Hold'em engine: player transitions, legal-action   *)
(* computation, the betting round, the side-pot engine, the hand lifecycle *)
(* and the table session.  Cards are abstracted to counts (deck size,      *)
(* number of community cards, "has hole cards"); the hand-ranking oracle   *)
(* is a rank per showdown seat chosen when the showdown is run.            *)
(* An Option value is a sequence of length 0 (none) or 1 (some).           *)
(***************************************************************************)
EXTENDS Integers, Sequences, FiniteSets, TLC

VARIABLES hand, table, lastRound, lastResult, loop

vars == <<hand, table, lastRound, lastResult, loop>>

\* ------------------------------------------------------------------ bounds

\* Seats 0 .. MaxSeats-1 are used.
MaxSeats == 3
\* Starting stacks are drawn from 1 .. MaxChips.
MaxChips == 4
\* The ranking oracle answers with a rank in 1 .. MaxRank.
MaxRank == 2

Seats == 0 .. (MaxSeats - 1)
StackChoices == 1 .. MaxChips
ForcedBetsChoices ==
    { [smallBlind |-> 1, bigBlind |-> 2], [smallBlind |-> 2, bigBlind |-> 3] }

\* ----------------------------------------------------------------- helpers

None == << >>
Some(v) == << v >>
IsSome(o) == Len(o) > 0
IsNone(o) == Len(o) = 0

Min2(a, b) == IF a <= b THEN a ELSE b

SetMin(S) == CHOOSE m \in S : \A x \in S : m <= x

RECURSIVE SumSeq(_)
SumSeq(s) == IF Len(s) = 0 THEN 0 ELSE Head(s) + SumSeq(Tail(s))

MapSeq(s, F(_)) == [i \in 1 .. Len(s) |-> F(s[i])]

Range(s) == { s[i] : i \in 1 .. Len(s) }

\* Ascending sequence of a finite set of seat numbers (Array.sort by seat).
RECURSIVE SortSeats(_)
SortSeats(S) ==
    IF S = {} THEN << >>
    ELSE LET m == SetMin(S) IN << m >> \o SortSeats(S \ {m})

\* Array.indexOf, 0-based; -1 when absent.
IndexOf(s, v) ==
    IF \E i \in 1 .. Len(s) : s[i] = v
    THEN (CHOOSE i \in 1 .. Len(s) : s[i] = v /\ \A j \in 1 .. (i - 1) : s[j] # v) - 1
    ELSE -1

\* [...s.slice(k), ...s.slice(0, k)] for 0 <= k <= Len(s).
Rotate(s, k) == SubSeq(s, k + 1, Len(s)) \o SubSeq(s, 1, k)

\* ------------------------------------------------------------------ player

createPlayer(seat, chips) ==
    [ seatIndex |-> seat, chips |-> chips, currentBet |-> 0,
      isAllIn |-> FALSE, isFolded |-> FALSE, holeCards |-> FALSE ]

\* Faulty variant of placeBet: the all-in flag is left as it was.
placeBetKeepingFlag(player, amount) ==
    [ player EXCEPT !.chips = player.chips - amount,
                    !.currentBet = player.currentBet + amount ]

placeBet(player, amount) ==
    [ player EXCEPT !.chips = player.chips - amount,
                    !.currentBet = player.currentBet + amount,
                    !.isAllIn = (player.chips - amount = 0) ]

foldPlayer(player) == [ player EXCEPT !.isFolded = TRUE ]

winChips(player, amount) == [ player EXCEPT !.chips = player.chips + amount ]

collectBet(player) == [ player EXCEPT !.currentBet = 0 ]

dealCards(player) == [ player EXCEPT !.holeCards = TRUE ]

clearHand(player) ==
    [ player EXCEPT !.currentBet = 0, !.isAllIn = FALSE,
                    !.isFolded = FALSE, !.holeCards = FALSE ]

canAct(player) == ~player.isFolded /\ ~player.isAllIn /\ player.chips > 0

\* players.find(p => p.seatIndex === seat); callers use it on seats present.
findPlayer(players, seat) ==
    players[CHOOSE i \in 1 .. Len(players) : players[i].seatIndex = seat]

hasPlayer(players, seat) == \E i \in 1 .. Len(players) : players[i].seatIndex = seat

\* Faulty variant of updatePlayerAt: the seat number is taken for the position
\* in the list.
updatePlayerAtPosition(players, seat, newPlayer) ==
    [ i \in 1 .. Len(players) |->
        IF i - 1 = seat THEN newPlayer ELSE players[i] ]

updatePlayerAt(players, seat, newPlayer) ==
    [ i \in 1 .. Len(players) |->
        IF players[i].seatIndex = seat THEN newPlayer ELSE players[i] ]

\* ------------------------------------------------------------------ action

Fold == [ tag |-> "Fold" ]
Check == [ tag |-> "Check" ]
Call == [ tag |-> "Call" ]
AllIn == [ tag |-> "AllIn" ]
Bet(a) == [ tag |-> "Bet", amount |-> a ]
Raise(a) == [ tag |-> "Raise", amount |-> a ]

\* Faulty variant of computeLegalActions: Call is offered whenever a bet is
\* faced, whether or not the player's chips cover it.
legalActionsCallUnchecked(playerChips, playerCurrentBet, biggestBet, minRaiseIncrement, hasBetThisRound) ==
    LET callGap == biggestBet - playerCurrentBet
        canCall == callGap > 0
        canOpen == ~hasBetThisRound /\ playerChips >= minRaiseIncrement
        minRaiseTo == biggestBet + minRaiseIncrement
        maxRaiseTo == playerChips + playerCurrentBet
        canRaise == hasBetThisRound /\ maxRaiseTo >= minRaiseTo
    IN  [ canFold |-> TRUE,
          canCheck |-> playerCurrentBet >= biggestBet,
          callAmount |-> IF canCall THEN Some(callGap) ELSE None,
          minBet |-> IF canOpen THEN Some(minRaiseIncrement) ELSE None,
          maxBet |-> IF canOpen THEN Some(playerChips) ELSE None,
          minRaise |-> IF canRaise THEN Some(minRaiseTo) ELSE None,
          maxRaise |-> IF canRaise THEN Some(maxRaiseTo) ELSE None,
          canAllIn |-> playerChips > 0,
          allInAmount |-> playerChips ]

computeLegalActions(playerChips, playerCurrentBet, biggestBet, minRaiseIncrement, hasBetThisRound) ==
    LET callGap == biggestBet - playerCurrentBet
        canCall == callGap > 0 /\ playerChips >= callGap
        canOpen == ~hasBetThisRound /\ playerChips >= minRaiseIncrement
        minRaiseTo == biggestBet + minRaiseIncrement
        maxRaiseTo == playerChips + playerCurrentBet
        canRaise == hasBetThisRound /\ maxRaiseTo >= minRaiseTo
    IN  [ canFold |-> TRUE,
          canCheck |-> playerCurrentBet >= biggestBet,
          callAmount |-> IF canCall THEN Some(callGap) ELSE None,
          minBet |-> IF canOpen THEN Some(minRaiseIncrement) ELSE None,
          maxBet |-> IF canOpen THEN Some(playerChips) ELSE None,
          minRaise |-> IF canRaise THEN Some(minRaiseTo) ELSE None,
          maxRaise |-> IF canRaise THEN Some(maxRaiseTo) ELSE None,
          canAllIn |-> playerChips > 0,
          allInAmount |-> playerChips ]

InvalidAction(name) == [ tag |-> "InvalidAction", action |-> name ]
\* Faulty variant of NotPlayersTurn: the two seats are swapped.
NotPlayersTurnSwapped(seat, expected) ==
    [ tag |-> "NotPlayersTurn", seat |-> expected, expectedSeat |-> seat ]

NotPlayersTurn(seat, expected) ==
    [ tag |-> "NotPlayersTurn", seat |-> seat, expectedSeat |-> expected ]
InvalidGameState(state) == [ tag |-> "InvalidGameState", state |-> state ]

\* None when the action is legal, Some(InvalidAction) otherwise.
validateAction(action, legal) ==
    CASE action.tag = "Fold" ->
            IF legal.canFold THEN None ELSE Some(InvalidAction("Fold"))
      [] action.tag = "Check" ->
            IF legal.canCheck THEN None ELSE Some(InvalidAction("Check"))
      [] action.tag = "Call" ->
            IF IsSome(legal.callAmount) THEN None ELSE Some(InvalidAction("Call"))
      [] action.tag = "Bet" ->
            IF IsNone(legal.minBet) \/ IsNone(legal.maxBet) THEN Some(InvalidAction("Bet"))
            ELSE IF action.amount < legal.minBet[1] THEN Some(InvalidAction("Bet"))
            ELSE IF action.amount > legal.maxBet[1] THEN Some(InvalidAction("Bet"))
            ELSE None
      [] action.tag = "Raise" ->
            IF IsNone(legal.minRaise) \/ IsNone(legal.maxRaise) THEN Some(InvalidAction("Raise"))
            ELSE IF action.amount < legal.minRaise[1] THEN Some(InvalidAction("Raise"))
            ELSE IF action.amount > legal.maxRaise[1] THEN Some(InvalidAction("Raise"))
            ELSE None
      [] action.tag = "AllIn" ->
            IF legal.canAllIn THEN None ELSE Some(InvalidAction("AllIn"))

\* ------------------------------------------------------------------ events

HandStarted(button, players) ==
    [ tag |-> "HandStarted", button |-> button, players |-> players ]
BlindsPosted(sbSeat, sbAmount, bbSeat, bbAmount) ==
    [ tag |-> "BlindsPosted",
      smallBlind |-> [ seat |-> sbSeat, amount |-> sbAmount ],
      bigBlind |-> [ seat |-> bbSeat, amount |-> bbAmount ] ]
HoleCardsDealt(seat) == [ tag |-> "HoleCardsDealt", seat |-> seat ]
PlayerActed(seat, action) == [ tag |-> "PlayerActed", seat |-> seat, action |-> action ]
BettingRoundEnded(round) == [ tag |-> "BettingRoundEnded", round |-> round ]
CommunityCardsDealt(count, phase) ==
    [ tag |-> "CommunityCardsDealt", cards |-> count, phase |-> phase ]
ShowdownStarted == [ tag |-> "ShowdownStarted" ]
PotAwarded(seat, amount, potIndex) ==
    [ tag |-> "PotAwarded", seat |-> seat, amount |-> amount, potIndex |-> potIndex ]
HandEnded == [ tag |-> "HandEnded" ]
PlayerSatDown(seat, chips) == [ tag |-> "PlayerSatDown", seat |-> seat, chips |-> chips ]
PlayerStoodUp(seat) == [ tag |-> "PlayerStoodUp", seat |-> seat ]

\* ----------------------------------------------------------- betting round

getPlayer(state, seat) == findPlayer(state.players, seat)

\* The round with the player of updatedPlayer's seat replaced; queue, index,
\* biggest bet and completion are left as they are.
updatePlayer(state, updatedPlayer) ==
    [ state EXCEPT
        !.players = [ i \in 1 .. Len(state.players) |->
                        IF state.players[i].seatIndex = updatedPlayer.seatIndex
                        THEN updatedPlayer ELSE state.players[i] ] ]

activePlayer(state) ==
    IF state.isComplete \/ Len(state.activeSeatOrder) = 0 THEN None
    ELSE IF state.activeIndex + 1 <= Len(state.activeSeatOrder)
         THEN Some(state.activeSeatOrder[state.activeIndex + 1])
         ELSE None

\* Faulty variant of createBettingRound: a round whose queue holds two seats
\* is created already complete.
createRoundClosedAtTwo(name, players, firstToActSeat, biggestBet, minRaise) ==
    LET activeSeats == { players[i].seatIndex :
                            i \in { j \in 1 .. Len(players) : canAct(players[j]) } }
        sorted == SortSeats(activeSeats)
        atOrAfter == { i \in 1 .. Len(sorted) : sorted[i] >= firstToActSeat }
        firstIdx == IF atOrAfter = {} THEN -1 ELSE SetMin(atOrAfter) - 1
        rotated == IF firstIdx = -1 THEN sorted ELSE Rotate(sorted, firstIdx)
        nonFolded == { i \in 1 .. Len(players) : ~players[i].isFolded }
    IN  [ name |-> name,
          players |-> players,
          activeIndex |-> 0,
          activeSeatOrder |-> rotated,
          biggestBet |-> biggestBet,
          minRaise |-> minRaise,
          lastAggressor |-> None,
          isComplete |-> (Cardinality(nonFolded) <= 1 \/ Len(rotated) <= 2),
          hasBetThisRound |-> biggestBet > 0,
          actedThisRound |-> {} ]

createBettingRound(name, players, firstToActSeat, biggestBet, minRaise) ==
    LET activeSeats == { players[i].seatIndex :
                            i \in { j \in 1 .. Len(players) : canAct(players[j]) } }
        sorted == SortSeats(activeSeats)
        atOrAfter == { i \in 1 .. Len(sorted) : sorted[i] >= firstToActSeat }
        firstIdx == IF atOrAfter = {} THEN -1 ELSE SetMin(atOrAfter) - 1
        rotated == IF firstIdx = -1 THEN sorted ELSE Rotate(sorted, firstIdx)
        nonFolded == { i \in 1 .. Len(players) : ~players[i].isFolded }
    IN  [ name |-> name,
          players |-> players,
          activeIndex |-> 0,
          activeSeatOrder |-> rotated,
          biggestBet |-> biggestBet,
          minRaise |-> minRaise,
          lastAggressor |-> None,
          isComplete |-> (Cardinality(nonFolded) <= 1 \/ Len(rotated) <= 1),
          hasBetThisRound |-> biggestBet > 0,
          actedThisRound |-> {} ]

getLegalActions(state) ==
    LET seat == activePlayer(state) IN
    IF IsNone(seat) \/ ~hasPlayer(state.players, seat[1])
    THEN computeLegalActions(0, 0, state.biggestBet, state.minRaise, state.hasBetThisRound)
    ELSE LET player == getPlayer(state, seat[1]) IN
         computeLegalActions(player.chips, player.currentBet, state.biggestBet,
                             state.minRaise, state.hasBetThisRound)

\* Faulty variant of checkComplete: the round closes as soon as one queued
\* seat has acted.
completeOnFirstActed(state) ==
    LET nonFolded == { i \in 1 .. Len(state.players) : ~state.players[i].isFolded } IN
    \/ Cardinality(nonFolded) <= 1
    \/ Len(state.activeSeatOrder) = 0
    \/ \E i \in 1 .. Len(state.activeSeatOrder) :
          state.activeSeatOrder[i] \in state.actedThisRound

checkComplete(state) ==
    LET nonFolded == { i \in 1 .. Len(state.players) : ~state.players[i].isFolded } IN
    IF Cardinality(nonFolded) <= 1 THEN TRUE
    ELSE IF Len(state.activeSeatOrder) = 0 THEN TRUE
    ELSE IF Cardinality(state.actedThisRound) > 0
            /\ \A i \in 1 .. Len(state.activeSeatOrder) :
                   state.activeSeatOrder[i] \in state.actedThisRound
         THEN TRUE
    ELSE FALSE

\* The AllIn branch's test: the all-in total exceeds the biggest bet.
allInRaises(state, player) == player.currentBet + player.chips > state.biggestBet

\* updatedPlayer after the Match on the action.
playerAfter(state, player, action) ==
    CASE action.tag = "Fold" -> foldPlayer(player)
      [] action.tag = "Check" -> player
      [] action.tag = "Call" -> placeBet(player, state.biggestBet - player.currentBet)
      [] action.tag = "Bet" -> placeBet(player, action.amount)
      [] action.tag = "Raise" -> placeBet(player, action.amount - player.currentBet)
      [] action.tag = "AllIn" -> placeBet(player, player.chips)

\* Faulty variant of removeFromActive: a Call, Bet or Raise that takes the
\* last chip leaves the seat in the queue.
removeOnFoldOrAllInOnly(state, player, action) == action.tag \in { "Fold", "AllIn" }

\* removeFromActive after the Match on the action.
removeFromActive(state, player, action) ==
    CASE action.tag = "Fold" -> TRUE
      [] action.tag = "Check" -> FALSE
      [] action.tag = "AllIn" -> TRUE
      [] OTHER -> playerAfter(state, player, action).isAllIn

biggestBetAfter(state, player, action) ==
    CASE action.tag = "Bet" -> player.currentBet + action.amount
      [] action.tag = "Raise" -> action.amount
      [] action.tag = "AllIn" /\ allInRaises(state, player) ->
            player.currentBet + player.chips
      [] OTHER -> state.biggestBet

minRaiseAfter(state, player, action) ==
    CASE action.tag = "Bet" -> action.amount
      [] action.tag = "Raise" -> action.amount - state.biggestBet
      [] action.tag = "AllIn" /\ allInRaises(state, player)
            /\ (player.currentBet + player.chips) - state.biggestBet >= state.minRaise ->
            (player.currentBet + player.chips) - state.biggestBet
      [] OTHER -> state.minRaise

lastAggressorAfter(state, player, seat, action) ==
    IF action.tag \in {"Bet", "Raise"}
       \/ (action.tag = "AllIn" /\ allInRaises(state, player))
    THEN Some(seat) ELSE state.lastAggressor

hasBetAfter(state, player, action) ==
    IF action.tag = "Bet" \/ (action.tag = "AllIn" /\ allInRaises(state, player))
    THEN TRUE ELSE state.hasBetThisRound

\* Faulty variant of actedAfter: every action resets the set to the actor.
actedOnlyActor(state, player, seat, action) == { seat }

\* actedThisRound after the Match (reset on Bet, Raise and a raising AllIn) and
\* after step 4 (the actor is added).
actedAfter(state, player, seat, action) ==
    ( IF action.tag \in {"Bet", "Raise"}
         \/ (action.tag = "AllIn" /\ allInRaises(state, player))
      THEN {} ELSE state.actedThisRound ) \cup {seat}

activeSeatOrderAfter(state, seat, remove) ==
    IF remove THEN SelectSeq(state.activeSeatOrder, LAMBDA s : s # seat)
    ELSE state.activeSeatOrder

\* Faulty variant of activeIndexAfter: the index is advanced even when the
\* actor was removed from the queue.
activeIndexAlwaysAdvanced(state, seat, remove, newOrder) ==
    IF Len(newOrder) = 0 THEN 0
    ELSE (state.activeIndex + 1) % Len(newOrder)

activeIndexAfter(state, seat, remove, newOrder) ==
    IF Len(newOrder) = 0 THEN 0
    ELSE IF remove
         THEN LET removedIdx == IndexOf(state.activeSeatOrder, seat) IN
              IF removedIdx >= Len(newOrder) THEN 0 ELSE removedIdx
         ELSE (state.activeIndex + 1) % Len(newOrder)

applyAction(state, seat, action) ==
    LET currentSeat == activePlayer(state) IN
    IF IsNone(currentSeat) \/ seat # currentSeat[1]
    THEN [ tag |-> "Left",
           error |-> NotPlayersTurn(seat, IF IsSome(currentSeat) THEN currentSeat[1] ELSE seat) ]
    ELSE
    LET validated == validateAction(action, getLegalActions(state)) IN
    IF IsSome(validated) THEN [ tag |-> "Left", error |-> validated[1] ]
    ELSE IF ~hasPlayer(state.players, seat)
    THEN [ tag |-> "Left", error |-> NotPlayersTurn(seat, seat) ]
    ELSE
    LET player == getPlayer(state, seat)
        remove == removeFromActive(state, player, action)
        newOrder == activeSeatOrderAfter(state, seat, remove)
        intermediateState ==
            [ state EXCEPT
                !.players = updatePlayerAt(state.players, seat, playerAfter(state, player, action)),
                !.activeIndex = activeIndexAfter(state, seat, remove, newOrder),
                !.activeSeatOrder = newOrder,
                !.biggestBet = biggestBetAfter(state, player, action),
                !.minRaise = minRaiseAfter(state, player, action),
                !.lastAggressor = lastAggressorAfter(state, player, seat, action),
                !.hasBetThisRound = hasBetAfter(state, player, action),
                !.actedThisRound = actedAfter(state, player, seat, action),
                !.isComplete = FALSE ]
        isComplete == checkComplete(intermediateState)
    IN  [ tag |-> "Right",
          state |-> [ intermediateState EXCEPT !.isComplete = isComplete ],
          events |-> << PlayerActed(seat, action) >>
                     \o (IF isComplete THEN << BettingRoundEnded(state.name) >> ELSE << >>) ]

\* -------------------------------------------------------------- pot engine

createPot(amount, eligibleSeats) == [ amount |-> amount, eligibleSeats |-> eligibleSeats ]

\* Faulty variant of sweepEligible: folded contributors stay eligible.
sweepContributors(ps, minBet) ==
    MapSeq(SelectSeq(ps, LAMBDA p : p.currentBet >= minBet), LAMBDA p : p.seatIndex)

\* eligibleSeats of one sweep level: contributed >= minBet and not folded.
sweepEligible(ps, minBet) ==
    MapSeq(SelectSeq(ps, LAMBDA p : p.currentBet >= minBet /\ ~p.isFolded),
           LAMBDA p : p.seatIndex)

\* The while loop of collectBets: one pot per remaining minimum bet level.
RECURSIVE sweepPots(_)
sweepPots(ps) ==
    IF \A i \in 1 .. Len(ps) : ~(ps[i].currentBet > 0) THEN << >>
    ELSE LET minBet == SetMin({ ps[i].currentBet :
                                  i \in { j \in 1 .. Len(ps) : ps[j].currentBet > 0 } })
             potAmount == SumSeq(MapSeq(ps, LAMBDA p :
                              IF p.currentBet > 0 THEN Min2(p.currentBet, minBet) ELSE 0))
             rest == MapSeq(ps, LAMBDA p :
                              IF p.currentBet > 0
                              THEN [ p EXCEPT !.currentBet = p.currentBet - Min2(p.currentBet, minBet) ]
                              ELSE p)
         IN  << createPot(potAmount, sweepEligible(ps, minBet)) >> \o sweepPots(rest)

\* Faulty variant of sameSeatSet: two seat lists of the same length count as
\* the same set.
sameSeatCount(a, b) == Len(a) = Len(b)

\* [...a].sort((x, y) => x - y): the seats of the list in ascending order, a
\* repeated seat kept as often as it occurs.
sortedSeatList(a) ==
    [ i \in 1 .. Len(a) |->
        CHOOSE v \in Range(a) :
            /\ Cardinality({ j \in 1 .. Len(a) : a[j] < v }) < i
            /\ i <= Cardinality({ j \in 1 .. Len(a) : a[j] <= v }) ]

sameSeatSet(a, b) ==
    IF Len(a) # Len(b) THEN FALSE
    ELSE LET sortedA == sortedSeatList(a)
             sortedB == sortedSeatList(b)
         IN  \A i \in 1 .. Len(sortedA) : sortedA[i] = sortedB[i]

mergePots(existing, incoming) ==
    IF Len(incoming) = 0 THEN existing
    ELSE IF Len(existing) = 0 THEN incoming
    ELSE LET lastExisting == existing[Len(existing)]
             firstIncoming == incoming[1]
         IN  IF sameSeatSet(lastExisting.eligibleSeats, firstIncoming.eligibleSeats)
             THEN SubSeq(existing, 1, Len(existing) - 1)
                  \o << createPot(lastExisting.amount + firstIncoming.amount,
                                  lastExisting.eligibleSeats) >>
                  \o Tail(incoming)
             ELSE existing \o incoming

\* Faulty variant of collectBets: the existing pots are dropped.
collectIntoFreshPots(players, existingPots) ==
    [ pots |-> sweepPots(players),
      players |-> MapSeq(players, LAMBDA p : [ p EXCEPT !.currentBet = 0 ]) ]

collectBets(players, existingPots) ==
    [ pots |-> mergePots(existingPots, sweepPots(players)),
      players |-> MapSeq(players, LAMBDA p : [ p EXCEPT !.currentBet = 0 ]) ]

\* Faulty variant of clockwiseOrder: the rotation starts at the button itself.
orderFromButton(buttonSeat, seatOrder) ==
    LET btnIdx == IndexOf(seatOrder, buttonSeat) IN
    IF btnIdx = -1 THEN seatOrder ELSE Rotate(seatOrder, btnIdx)

clockwiseOrder(buttonSeat, seatOrder) ==
    LET btnIdx == IndexOf(seatOrder, buttonSeat) IN
    IF btnIdx = -1 THEN seatOrder
    ELSE Rotate(seatOrder, (btnIdx + 1) % Len(seatOrder))

\* pot.eligibleSeats.filter(s => playerHands.has(s))
potContenders(pot, playerHands) ==
    SelectSeq(pot.eligibleSeats, LAMBDA s : s \in DOMAIN playerHands)

\* The contenders holding the best rank, in eligible-seat order.
potWinners(contenders, playerHands) ==
    LET bestRank == CHOOSE r \in { playerHands[s] : s \in Range(contenders) } :
                        \A s \in Range(contenders) : playerHands[s] <= r
    IN  SelectSeq(contenders, LAMBDA s : playerHands[s] = bestRank)

\* clockwiseFromButton.find(s => winnerSeats.includes(s))
oddChipRecipient(winnerSeats, buttonSeat, seatOrder) ==
    LET cw == clockwiseOrder(buttonSeat, seatOrder)
        hits == { i \in 1 .. Len(cw) : cw[i] \in Range(winnerSeats) }
    IN  IF hits = {} THEN None ELSE Some(cw[SetMin(hits)])

\* The awards of one pot.
awardPot(pot, playerHands, buttonSeat, seatOrder) ==
    LET contenders == potContenders(pot, playerHands) IN
    IF Len(contenders) = 0 THEN << >>
    ELSE IF Len(contenders) = 1
    THEN << [ seat |-> contenders[1], amount |-> pot.amount ] >>
    ELSE LET winnerSeats == potWinners(contenders, playerHands)
             share == pot.amount \div Len(winnerSeats)
             remainder == pot.amount - share * Len(winnerSeats)
             odd == oddChipRecipient(winnerSeats, buttonSeat, seatOrder)
         IN  MapSeq(winnerSeats, LAMBDA s :
                 [ seat |-> s,
                   amount |-> share + (IF odd = Some(s) THEN remainder ELSE 0) ])

RECURSIVE awardPots(_, _, _, _)
awardPots(pots, playerHands, buttonSeat, seatOrder) ==
    IF Len(pots) = 0 THEN << >>
    ELSE awardPot(Head(pots), playerHands, buttonSeat, seatOrder)
         \o awardPots(Tail(pots), playerHands, buttonSeat, seatOrder)

totalPotSize(pots) == SumSeq(MapSeq(pots, LAMBDA p : p.amount))

\* -------------------------------------------------------------------- deck

DeckSize == 52

\* dealHoleCards: two cards per seat; None when the deck is too short.
dealHoleCards(deck, seatOrder) ==
    IF Len(seatOrder) * 2 > deck THEN None ELSE Some(deck - Len(seatOrder) * 2)

\* Faulty variant of dealFlop: the flop is dealt one card short.
dealFlopTwoCards(deck) == IF deck < 4 THEN None ELSE Some(<< 2, deck - 3 >>)

\* dealFlop: burn 1, deal 3; the result is <<cards dealt, cards remaining>>.
dealFlop(deck) == IF deck < 4 THEN None ELSE Some(<< 3, deck - 4 >>)

\* dealOne: burn 1, deal 1.
dealOne(deck) == IF deck < 2 THEN None ELSE Some(<< 1, deck - 2 >>)

\* ---------------------------------------------------------- hand lifecycle

Left(e) == [ tag |-> "Left", error |-> e ]
Right(s) == [ tag |-> "Right", state |-> s ]

getPositionalSeatOrder(players, button) ==
    LET activeSeats == SortSeats({ players[i].seatIndex :
                            i \in { j \in 1 .. Len(players) : ~players[j].isFolded } })
        btnIdx == IndexOf(activeSeats, button)
    IN  IF Len(activeSeats) = 0 THEN << >>
        ELSE IF btnIdx = -1 THEN activeSeats
        ELSE Rotate(activeSeats, btnIdx)

getFirstToActPostflop(seatOrder, button, players) ==
    IF Len(seatOrder) = 0 THEN None
    ELSE LET after == { i \in 2 .. Len(seatOrder) :
                          hasPlayer(players, seatOrder[i])
                          /\ canAct(findPlayer(players, seatOrder[i])) }
         IN  IF after # {} THEN Some(seatOrder[SetMin(after)])
             ELSE IF hasPlayer(players, button) /\ canAct(findPlayer(players, button))
                  THEN Some(button)
                  ELSE None

\* hand.ts updatePlayer: apply the updater to the player at the seat, if any.
creditPlayer(players, seat, amount) ==
    [ i \in 1 .. Len(players) |->
        IF players[i].seatIndex = seat THEN winChips(players[i], amount) ELSE players[i] ]

betPlayer(players, seat, amount) ==
    [ i \in 1 .. Len(players) |->
        IF players[i].seatIndex = seat THEN placeBet(players[i], amount) ELSE players[i] ]

countActive(players) == Cardinality({ i \in 1 .. Len(players) : ~players[i].isFolded })

activePlayers(players) == SelectSeq(players, LAMBDA p : ~p.isFolded)

\* Small-blind and big-blind seats chosen by startHand.
blindSeats(seatOrder) ==
    IF Len(seatOrder) = 2
    THEN [ sb |-> seatOrder[1], bb |-> seatOrder[2] ]
    ELSE [ sb |-> seatOrder[2], bb |-> seatOrder[3] ]

\* First seat to act preflop.
preflopFirstToAct(seatOrder, bbSeat) ==
    IF Len(seatOrder) = 2 THEN seatOrder[1]
    ELSE seatOrder[((IndexOf(seatOrder, bbSeat) + 1) % Len(seatOrder)) + 1]

startHand(players, button, forcedBets) ==
    LET seatOrder == getPositionalSeatOrder(players, button) IN
    IF Len(seatOrder) < 2 THEN Left(InvalidGameState("startHand"))
    ELSE
    LET dealt == dealHoleCards(DeckSize, seatOrder) IN
    IF IsNone(dealt) THEN Left(InvalidGameState("startHand"))
    ELSE
    LET withCards == MapSeq(players, LAMBDA p :
                        IF p.seatIndex \in Range(seatOrder) THEN dealCards(p) ELSE p)
        blinds == blindSeats(seatOrder)
        sbAmount == Min2(forcedBets.smallBlind, findPlayer(withCards, blinds.sb).chips)
        afterSb == betPlayer(withCards, blinds.sb, sbAmount)
        bbAmount == Min2(forcedBets.bigBlind, findPlayer(afterSb, blinds.bb).chips)
        afterBb == betPlayer(afterSb, blinds.bb, bbAmount)
        events == << HandStarted(button, seatOrder),
                     BlindsPosted(blinds.sb, sbAmount, blinds.bb, bbAmount) >>
                  \o MapSeq(seatOrder, HoleCardsDealt)
        firstToAct == preflopFirstToAct(seatOrder, blinds.bb)
    IN  Right([ phase |-> "Preflop",
                players |-> afterBb,
                communityCards |-> 0,
                deck |-> dealt[1],
                pots |-> << >>,
                bettingRound |-> Some(createBettingRound("Preflop", afterBb, firstToAct,
                                                         bbAmount, forcedBets.bigBlind)),
                button |-> button,
                forcedBets |-> forcedBets,
                events |-> events,
                seatOrder |-> seatOrder ])

\* Faulty variant of awardToLastPlayer: only the first pot is awarded.
awardFirstPotOnly(state) ==
    LET remaining == activePlayers(state.players)
        first == SubSeq(state.pots, 1, Min2(1, Len(state.pots)))
    IN  IF Len(remaining) = 0 THEN Left(InvalidGameState(state.phase))
        ELSE Right([ state EXCEPT
                       !.phase = "Complete",
                       !.players = creditPlayer(state.players, remaining[1].seatIndex,
                                                totalPotSize(first)),
                       !.pots = << >>,
                       !.bettingRound = None,
                       !.events = state.events
                                  \o [ i \in 1 .. Len(first) |->
                                         PotAwarded(remaining[1].seatIndex, first[i].amount, i - 1) ]
                                  \o << HandEnded >> ])

awardToLastPlayer(state) ==
    LET remaining == activePlayers(state.players) IN
    IF Len(remaining) = 0 THEN Left(InvalidGameState(state.phase))
    ELSE
    LET winner == remaining[1]
        awardEvents == [ i \in 1 .. Len(state.pots) |->
                            PotAwarded(winner.seatIndex, state.pots[i].amount, i - 1) ]
    IN  Right([ state EXCEPT
                  !.phase = "Complete",
                  !.players = creditPlayer(state.players, winner.seatIndex,
                                           totalPotSize(state.pots)),
                  !.pots = << >>,
                  !.bettingRound = None,
                  !.events = state.events \o awardEvents \o << HandEnded >> ])

\* The hands evaluated at showdown: non-folded players holding hole cards.
showdownHands(players, ranks) ==
    [ s \in { players[i].seatIndex :
                i \in { j \in 1 .. Len(players) :
                          ~players[j].isFolded /\ players[j].holeCards } } |-> ranks[s] ]

\* The credit loop of performShowdown: walks the pots, taking for each pot with
\* contenders as many awards from the flat award list as the pot has winners.
RECURSIVE showdownWalk(_, _, _, _, _)
showdownWalk(pots, potIdx, awards, playerHands, acc) ==
    IF Len(pots) = 0 THEN acc
    ELSE
    LET contenders == potContenders(Head(pots), playerHands) IN
    IF Len(contenders) = 0
    THEN showdownWalk(Tail(pots), potIdx + 1, awards, playerHands, acc)
    ELSE
    LET take == Min2(Len(potWinners(contenders, playerHands)), Len(awards))
        mine == SubSeq(awards, 1, take)
        credited == [ i \in 1 .. Len(acc.players) |->
                        winChips(acc.players[i],
                                 SumSeq(MapSeq(mine, LAMBDA a :
                                    IF a.seat = acc.players[i].seatIndex THEN a.amount ELSE 0))) ]
    IN  showdownWalk(Tail(pots), potIdx + 1, SubSeq(awards, take + 1, Len(awards)),
                     playerHands,
                     [ players |-> credited,
                       events |-> acc.events
                                  \o MapSeq(mine, LAMBDA a : PotAwarded(a.seat, a.amount, potIdx)) ])

performShowdown(state, ranks) ==
    LET playerHands == showdownHands(state.players, ranks)
        awards == awardPots(state.pots, playerHands, state.button, state.seatOrder)
        walked == showdownWalk(state.pots, 0, awards, playerHands,
                               [ players |-> state.players, events |-> << ShowdownStarted >> ])
    IN  Right([ state EXCEPT
                  !.phase = "Complete",
                  !.players = walked.players,
                  !.pots = << >>,
                  !.bettingRound = None,
                  !.events = state.events \o walked.events \o << HandEnded >> ])

\* Faulty variant of dealAndStartRound: any street after the flop is started
\* as a new Preflop round.
dealAndRewind(state, nextPhase, canAnyoneAct, ranks) ==
    LET phase == IF nextPhase = "Flop" THEN "Flop" ELSE "Preflop" IN
    Right([ state EXCEPT
              !.phase = phase,
              !.bettingRound = Some(createBettingRound(phase, state.players, state.button,
                                                       0, state.forcedBets.bigBlind)) ])

\* Faulty variant of dealAndStartRound: when no one can act it deals the one
\* street and stops there, without a betting round.
dealOneStreetOnly(state, nextPhase, canAnyoneAct, ranks) ==
    LET dealt == IF nextPhase = "Flop" THEN dealFlop(state.deck) ELSE dealOne(state.deck) IN
    IF IsNone(dealt) THEN Left(InvalidGameState(nextPhase))
    ELSE
    LET stateWithCards ==
            [ state EXCEPT
                !.phase = nextPhase,
                !.communityCards = state.communityCards + dealt[1][1],
                !.deck = dealt[1][2],
                !.events = state.events \o << CommunityCardsDealt(dealt[1][1], nextPhase) >> ]
        firstToAct == getFirstToActPostflop(state.seatOrder, state.button, state.players)
    IN  IF ~canAnyoneAct \/ IsNone(firstToAct)
        THEN Right(stateWithCards)
        ELSE Right([ stateWithCards EXCEPT
                       !.bettingRound =
                           Some(createBettingRound(nextPhase, stateWithCards.players,
                                                   firstToAct[1], 0,
                                                   state.forcedBets.bigBlind)) ])

RECURSIVE dealAndStartRound(_, _, _, _)
dealAndStartRound(state, nextPhase, canAnyoneAct, ranks) ==
    LET dealt == IF nextPhase = "Flop" THEN dealFlop(state.deck) ELSE dealOne(state.deck) IN
    IF IsNone(dealt) THEN Left(InvalidGameState(nextPhase))
    ELSE
    LET stateWithCards ==
            [ state EXCEPT
                !.phase = nextPhase,
                !.communityCards = state.communityCards + dealt[1][1],
                !.deck = dealt[1][2],
                !.events = state.events \o << CommunityCardsDealt(dealt[1][1], nextPhase) >> ]
        firstToAct == getFirstToActPostflop(state.seatOrder, state.button, state.players)
    IN  IF ~canAnyoneAct \/ IsNone(firstToAct)
        THEN IF nextPhase = "River" THEN performShowdown(stateWithCards, ranks)
             ELSE dealAndStartRound(stateWithCards,
                                    IF nextPhase = "Flop" THEN "Turn" ELSE "River",
                                    FALSE, ranks)
        ELSE Right([ stateWithCards EXCEPT
                       !.bettingRound =
                           Some(createBettingRound(nextPhase, stateWithCards.players,
                                                   firstToAct[1], 0,
                                                   state.forcedBets.bigBlind)) ])

advancePhase(state, ranks) ==
    LET collected == collectBets(state.players, state.pots)
        playersReset == MapSeq(collected.players, collectBet)
        roundName == IF IsSome(state.bettingRound) THEN state.bettingRound[1].name
                     ELSE state.phase
        baseState == [ state EXCEPT
                         !.players = playersReset,
                         !.pots = collected.pots,
                         !.bettingRound = None,
                         !.events = state.events \o << BettingRoundEnded(roundName) >> ]
        canAnyoneAct == \E i \in 1 .. Len(playersReset) : canAct(playersReset[i])
    IN  IF countActive(playersReset) <= 1 THEN awardToLastPlayer(baseState)
        ELSE CASE state.phase = "Preflop" -> dealAndStartRound(baseState, "Flop", canAnyoneAct, ranks)
               [] state.phase = "Flop" -> dealAndStartRound(baseState, "Turn", canAnyoneAct, ranks)
               [] state.phase = "Turn" -> dealAndStartRound(baseState, "River", canAnyoneAct, ranks)
               [] state.phase = "River" -> performShowdown(baseState, ranks)
               [] OTHER -> Left(InvalidGameState(state.phase))

\* Faulty variant of handAct: an action the betting round rejected is still
\* written to the hand's event log, and the hand comes back as if accepted.
handActLoggingRejected(state, seat, action, ranks) ==
    IF state.phase = "Complete" \/ state.phase = "Showdown"
    THEN Left(InvalidGameState(state.phase))
    ELSE IF IsNone(state.bettingRound) THEN Left(InvalidGameState(state.phase))
    ELSE
    LET result == applyAction(state.bettingRound[1], seat, action) IN
    IF result.tag = "Left"
    THEN Right([ state EXCEPT !.events = Append(state.events, PlayerActed(seat, action)) ])
    ELSE
    LET updatedState == [ state EXCEPT
                            !.players = result.state.players,
                            !.bettingRound = Some(result.state),
                            !.events = state.events \o result.events ]
    IN  IF result.state.isComplete THEN advancePhase(updatedState, ranks)
        ELSE Right(updatedState)

\* hand.act; ranks is the ranking oracle's answer per seat, read at showdown.
handAct(state, seat, action, ranks) ==
    IF state.phase = "Complete" \/ state.phase = "Showdown"
    THEN Left(InvalidGameState(state.phase))
    ELSE IF IsNone(state.bettingRound) THEN Left(InvalidGameState(state.phase))
    ELSE
    LET result == applyAction(state.bettingRound[1], seat, action) IN
    IF result.tag = "Left" THEN Left(result.error)
    ELSE
    LET updatedState == [ state EXCEPT
                            !.players = result.state.players,
                            !.bettingRound = Some(result.state),
                            !.events = state.events \o result.events ]
    IN  IF result.state.isComplete THEN advancePhase(updatedState, ranks)
        ELSE Right(updatedState)

handActivePlayer(state) ==
    IF IsNone(state.bettingRound) THEN None ELSE activePlayer(state.bettingRound[1])

handGetLegalActions(state) ==
    IF IsNone(state.bettingRound) THEN None ELSE Some(getLegalActions(state.bettingRound[1]))

handIsComplete(state) == state.phase = "Complete"

\* ------------------------------------------------------------------- table

SeatOccupied(seat) == [ tag |-> "SeatOccupied", seat |-> seat ]
TableFull == [ tag |-> "TableFull" ]
SeatEmpty(seat) == [ tag |-> "SeatEmpty", seat |-> seat ]
HandInProgress == [ tag |-> "HandInProgress" ]
NoHandInProgress == [ tag |-> "NoHandInProgress" ]
NotEnoughPlayers(count, minimum) ==
    [ tag |-> "NotEnoughPlayers", count |-> count, minimum |-> minimum ]

\* The Error createTable throws for a seat count outside 2 .. 10.
MinTableSeats == 2
MaxTableSeats == 10
InvalidMaxSeats(maxSeats) ==
    [ thrown |-> "Error", message |-> "maxSeats must be between 2 and 10", got |-> maxSeats ]

\* seats is a function from the occupied seat numbers to players.
createTable(config) ==
    IF config.maxSeats < MinTableSeats \/ config.maxSeats > MaxTableSeats
    THEN InvalidMaxSeats(config.maxSeats)
    ELSE
    [ config |-> config,
      seats |-> [ s \in {} |-> createPlayer(0, 0) ],
      button |-> None,
      currentHand |-> None,
      handCount |-> 0,
      events |-> << >> ]

sitDown(state, seat, chips) ==
    IF seat \in DOMAIN state.seats THEN Left(SeatOccupied(seat))
    ELSE IF Cardinality(DOMAIN state.seats) >= state.config.maxSeats THEN Left(TableFull)
    ELSE Right([ state EXCEPT
                   !.seats = [ s \in DOMAIN state.seats \cup {seat} |->
                                 IF s = seat THEN createPlayer(seat, chips)
                                 ELSE state.seats[s] ],
                   !.events = Append(state.events, PlayerSatDown(seat, chips)) ])

standUp(state, seat) ==
    IF seat \notin DOMAIN state.seats THEN Left(SeatEmpty(seat))
    ELSE IF IsSome(state.currentHand) THEN Left(HandInProgress)
    ELSE Right([ state EXCEPT
                   !.seats = [ s \in DOMAIN state.seats \ {seat} |-> state.seats[s] ],
                   !.events = Append(state.events, PlayerStoodUp(seat)) ])

\* Callers pass a non-empty seat map.
\* Faulty variant of advanceButton: the button always goes to the smallest
\* occupied seat.
buttonToSmallestSeat(currentButton, seats) == SortSeats(DOMAIN seats)[1]

advanceButton(currentButton, seats) ==
    LET sortedSeats == SortSeats(DOMAIN seats)
        later == { i \in 1 .. Len(sortedSeats) :
                     IsSome(currentButton) /\ sortedSeats[i] > currentButton[1] }
    IN  IF IsNone(currentButton) THEN sortedSeats[1]
        ELSE IF later = {} THEN sortedSeats[1]
        ELSE sortedSeats[SetMin(later)]

\* Faulty variant of startNextHand: every seated player is dealt in and
\* counted, the ones without chips included.
startNextHandAllSeated(state) ==
    IF IsSome(state.currentHand) THEN Left(HandInProgress)
    ELSE
    LET eligibleSeats == DOMAIN state.seats IN
    IF Cardinality(eligibleSeats) < 2
    THEN Left(NotEnoughPlayers(Cardinality(eligibleSeats), 2))
    ELSE
    LET newButton == advanceButton(state.button, state.seats)
        order == SortSeats(eligibleSeats)
        players == [ i \in 1 .. Len(order) |-> clearHand(state.seats[order[i]]) ]
        started == startHand(players, newButton, state.config.forcedBets)
    IN  IF started.tag = "Left" THEN started
        ELSE Right([ state EXCEPT
                       !.button = Some(newButton),
                       !.currentHand = Some(started.state),
                       !.handCount = state.handCount + 1 ])

startNextHand(state) ==
    IF IsSome(state.currentHand) THEN Left(HandInProgress)
    ELSE
    LET eligibleSeats == { s \in DOMAIN state.seats : state.seats[s].chips > 0 } IN
    IF Cardinality(eligibleSeats) < 2
    THEN Left(NotEnoughPlayers(Cardinality(eligibleSeats), 2))
    ELSE
    LET newButton == advanceButton(state.button, state.seats)
        order == SortSeats(eligibleSeats)
        players == [ i \in 1 .. Len(order) |-> clearHand(state.seats[order[i]]) ]
        started == startHand(players, newButton, state.config.forcedBets)
    IN  IF started.tag = "Left" THEN started
        ELSE Right([ state EXCEPT
                       !.button = Some(newButton),
                       !.currentHand = Some(started.state),
                       !.handCount = state.handCount + 1 ])

\* The seat map after a completed hand: final chips copied back, busted seats removed.
\* Faulty variant of seatsAfterHand: final chips copied back, no seat removed.
seatsKeptAfterHand(seats, handPlayers) ==
    [ s \in DOMAIN seats |->
        IF hasPlayer(handPlayers, s)
        THEN [ clearHand(seats[s]) EXCEPT !.chips = findPlayer(handPlayers, s).chips ]
        ELSE seats[s] ]

seatsAfterHand(seats, handPlayers) ==
    LET final(s) == IF hasPlayer(handPlayers, s)
                    THEN [ clearHand(seats[s]) EXCEPT !.chips = findPlayer(handPlayers, s).chips ]
                    ELSE seats[s]
        kept == { s \in DOMAIN seats : final(s).chips # 0 \/ ~hasPlayer(handPlayers, s) }
    IN  [ s \in kept |-> final(s) ]

\* The Either.map of table.act, applied to what hand.act returned.
\* Faulty variant of tableAfterAct: the completed hand's events are put in
\* front of the table's log.
tableAfterActEventsInFront(state, result) ==
    IF result.tag = "Left" THEN result
    ELSE IF handIsComplete(result.state)
    THEN Right([ state EXCEPT
                   !.seats = seatsAfterHand(state.seats, result.state.players),
                   !.currentHand = None,
                   !.events = result.state.events \o state.events ])
    ELSE Right([ state EXCEPT !.currentHand = Some(result.state) ])

tableAfterAct(state, result) ==
    IF result.tag = "Left" THEN result
    ELSE IF handIsComplete(result.state)
    THEN Right([ state EXCEPT
                   !.seats = seatsAfterHand(state.seats, result.state.players),
                   !.currentHand = None,
                   !.events = state.events \o result.state.events ])
    ELSE Right([ state EXCEPT !.currentHand = Some(result.state) ])

tableAct(state, seat, action, ranks) ==
    IF IsNone(state.currentHand) THEN Left(NoHandInProgress)
    ELSE tableAfterAct(state, handAct(state.currentHand[1], seat, action, ranks))

getActivePlayer(state) ==
    IF IsNone(state.currentHand) THEN None ELSE handActivePlayer(state.currentHand[1])

getTableLegalActions(state) ==
    IF IsNone(state.currentHand) THEN None ELSE handGetLegalActions(state.currentHand[1])

\* ---------------------------------------------------------- the state machine

\* Inputs offered to act.
AmountChoices == 1 .. MaxChips
ActionChoices ==
    { Fold, Check, Call, AllIn }
        \cup { Bet(a) : a \in AmountChoices } \cup { Raise(a) : a \in AmountChoices }
SimpleActions == { Fold, Check, Call, AllIn }
RankChoices == [ Seats -> 1 .. MaxRank ]

\* The value of `hand` before any hand was started (table session only).
NoHand == [ phase |-> "NoHand" ]

\* The functions are pure: a caller holds the returned state on success and
\* still holds its input on rejection.
keptState(state, result) == IF result.tag = "Right" THEN result.state ELSE state

\* The players handed to startHand: one fresh player per chosen seat, by seat.
freshPlayers(stacks) ==
    LET order == SortSeats(DOMAIN stacks) IN
    [ i \in 1 .. Len(order) |-> createPlayer(order[i], stacks[order[i]]) ]

\* No playOneHand call is in progress.
NoLoop == [ maxActions |-> 0, actionCount |-> 0 ]

DefaultConfig == [ maxSeats |-> MaxSeats, forcedBets |-> [smallBlind |-> 1, bigBlind |-> 2] ]

\* Hand session: a hand is started directly with startHand.
Init ==
    \E S \in SUBSET Seats : \E button \in Seats : \E forcedBets \in ForcedBetsChoices :
        /\ Cardinality(S) >= 2
        /\ \E stacks \in [ S -> StackChoices ] :
              hand = startHand(freshPlayers(stacks), button, forcedBets).state
        /\ table = createTable(DefaultConfig)
        /\ lastRound = None
        /\ lastResult = [ kind |-> "start" ]
        /\ loop = NoLoop
\* The ranking oracle is consulted only by a call that runs the showdown; the
\* other calls never read it.
DefaultRanks == [ s \in Seats |-> 1 ]
runsShowdown(before, result) ==
    /\ result.tag = "Right"
    /\ \E i \in (Len(before.events) + 1) .. Len(result.state.events) :
          result.state.events[i] = ShowdownStarted
RanksRead(before, result) == IF runsShowdown(before, result) THEN RankChoices ELSE { DefaultRanks }

\* hand.act accepted: the caller continues with the returned hand state.
Act(seat, action) ==
    \E first \in { handAct(hand, seat, action, DefaultRanks) } :
        /\ first.tag = "Right"
        /\ \E ranks \in RanksRead(hand, first) :
              \E result \in { IF ranks = DefaultRanks THEN first
                              ELSE handAct(hand, seat, action, ranks) } :
                  hand' = keptState(hand, result)
        /\ lastRound' = Some(applyAction(hand.bettingRound[1], seat, action).state)
        /\ lastResult' = [ kind |-> "ok", seat |-> seat, action |-> action ]
        /\ UNCHANGED << table, loop >>

\* hand.act rejected: only the error comes back.
ActRejected(seat, action) ==
    \E result \in { handAct(hand, seat, action, DefaultRanks) } :
        /\ result.tag = "Left"
        /\ hand' = keptState(hand, result)
        /\ lastResult' = [ kind |-> "error", error |-> result.error ]
        /\ UNCHANGED << table, lastRound, loop >>

\* Valid play: every call is one the hand accepts.
Next == \E seat \in Seats : \E action \in ActionChoices : Act(seat, action)

Spec == Init /\ [][Next]_vars

\* Arbitrary calls, the rejected ones included, on hands started with the
\* default blinds, the button on a dealt seat and a short or a full stack.
CallStackChoices == { 2, MaxChips }

CallInit ==
    \E S \in SUBSET Seats : \E button \in S :
        /\ Cardinality(S) >= 2
        /\ \E stacks \in [ S -> CallStackChoices ] :
              hand = startHand(freshPlayers(stacks), button, DefaultConfig.forcedBets).state
        /\ table = createTable(DefaultConfig)
        /\ lastRound = None
        /\ lastResult = [ kind |-> "start" ]
        /\ loop = NoLoop
CallNext ==
    \E seat \in Seats : \E action \in ActionChoices :
        \/ Act(seat, action)
        \/ ActRejected(seat, action)

CallSpec == CallInit /\ [][CallNext]_vars

\* Scenario hands: two players at seats 0 and 1 with the test suite's default
\* stack, the default blinds and the button on seat 0.
S1Stack == 100

S1Init ==
    /\ hand = startHand(freshPlayers([ s \in { 0, 1 } |-> S1Stack ]), 0,
                        DefaultConfig.forcedBets).state
    /\ table = createTable(DefaultConfig)
    /\ lastRound = None
    /\ lastResult = [ kind |-> "start" ]
    /\ loop = NoLoop
S1Spec == S1Init /\ [][Next]_vars

\* Pot engine session: collectBets and awardPots are applied to bets, pots,
\* button and seat order drawn from small sets and from the scenarios of the
\* test suite. `hand` holds the players and pots the caller passes in.
MaxBet == 3

ExistingPotsChoices ==
    { << >>,
      << createPot(2, << 0, 1, 2 >>) >>,
      << createPot(2, << 0, 1 >>) >>,
      << createPot(3, << 0, 1, 2 >>), createPot(1, << 1, 2 >>) >> }

\* bp(seat, currentBet, { isFolded, isAllIn }) of the pot tests.
bettingPlayer(seat, currentBet, isFolded, isAllIn) ==
    [ createPlayer(seat, 0) EXCEPT !.currentBet = currentBet,
                                   !.isFolded = isFolded,
                                   !.isAllIn = isAllIn ]

potInput(players, pots, button, seatOrder) ==
    [ phase |-> "Pots", players |-> players, pots |-> pots,
      button |-> button, seatOrder |-> seatOrder ]

\* "two different all-ins produce 3 pots"
S4Input ==
    potInput(<< bettingPlayer(0, 30, FALSE, TRUE), bettingPlayer(1, 70, FALSE, TRUE),
                bettingPlayer(2, 100, FALSE, FALSE) >>,
             << >>, 0, << 0, 1, 2 >>)

\* "odd chip goes to first player clockwise from button"
S5Input ==
    potInput(<< bettingPlayer(0, 0, FALSE, FALSE), bettingPlayer(1, 0, FALSE, FALSE),
                bettingPlayer(2, 0, FALSE, FALSE) >>,
             << createPot(301, << 0, 1, 2 >>) >>, 1, << 0, 1, 2, 3 >>)
S5Ranks == [ s \in Seats |-> IF s = 1 THEN 1 ELSE 5 ]

PotRankChoices == RankChoices \cup { S5Ranks }

PotInit ==
    /\ \/ \E bets \in [ Seats -> 0 .. MaxBet ] : \E folded \in SUBSET Seats :
          \E pots \in ExistingPotsChoices : \E button \in Seats :
             hand = potInput([ i \in 1 .. MaxSeats |->
                                 bettingPlayer(i - 1, bets[i - 1], (i - 1) \in folded, FALSE) ],
                             pots, button, Rotate(SortSeats(Seats), button))
       \/ hand = S4Input
       \/ hand = S5Input
    /\ table = createTable(DefaultConfig)
    /\ lastRound = None
    /\ lastResult = [ kind |-> "start" ]
    /\ loop = NoLoop
\* collectBets(players, existingPots); the caller goes on with the returned
\* players and pots.
CollectBets ==
    /\ lastResult.kind = "start"
    /\ \E result \in { collectBets(hand.players, hand.pots) } :
          /\ hand' = [ hand EXCEPT !.players = result.players, !.pots = result.pots ]
          /\ lastResult' = [ kind |-> "ok", op |-> "collectBets" ]
    /\ UNCHANGED << table, lastRound, loop >>

\* awardPots(pots, playerHands, button, seatOrder) with a hand rank for every
\* player who has not folded.
AwardPots(ranks) ==
    /\ \/ lastResult.kind = "start"
       \/ lastResult.kind = "ok" /\ lastResult.op = "collectBets"
    /\ \E playerHands \in { showdownHands(MapSeq(hand.players, dealCards), ranks) } :
          lastResult' = [ kind |-> "ok", op |-> "awardPots",
                          playerHands |-> playerHands,
                          awards |-> awardPots(hand.pots, playerHands,
                                               hand.button, hand.seatOrder) ]
    /\ UNCHANGED << hand, table, lastRound, loop >>

PotNext ==
    \/ CollectBets
    \/ \E ranks \in PotRankChoices : AwardPots(ranks)

PotSpec == PotInit /\ [][PotNext]_vars

\* Table session: players sit down and stand up, hands are started with
\* startNextHand and played through the table's act.
MaxHands == 2
MaxSitDowns == 3
MaxStandUps == 1
\* Accepted hand actions over the whole session.
MaxSessionActs == 3
TableStackChoices == { 0, 1, MaxChips }

countEvents(events, tag) == Cardinality({ i \in 1 .. Len(events) : events[i].tag = tag })

TableInit ==
    /\ table = createTable(DefaultConfig)
    /\ hand = NoHand
    /\ lastRound = None
    /\ lastResult = [ kind |-> "start" ]
    /\ loop = NoLoop
SitDown(seat, chips) ==
    /\ countEvents(table.events, "PlayerSatDown") < MaxSitDowns
    /\ \E result \in { sitDown(table, seat, chips) } :
          /\ table' = keptState(table, result)
          /\ lastResult' = IF result.tag = "Right" THEN [ kind |-> "ok", op |-> "sitDown" ]
                           ELSE [ kind |-> "error", error |-> result.error ]
    /\ UNCHANGED << hand, lastRound, loop >>

StandUp(seat) ==
    /\ countEvents(table.events, "PlayerStoodUp") < MaxStandUps
    /\ \E result \in { standUp(table, seat) } :
          /\ table' = keptState(table, result)
          /\ lastResult' = IF result.tag = "Right" THEN [ kind |-> "ok", op |-> "standUp" ]
                           ELSE [ kind |-> "error", error |-> result.error ]
    /\ UNCHANGED << hand, lastRound, loop >>

StartNextHand ==
    /\ table.handCount < MaxHands
    /\ \E result \in { startNextHand(table) } :
          /\ table' = keptState(table, result)
          /\ hand' = IF result.tag = "Right" THEN result.state.currentHand[1] ELSE hand
          /\ lastRound' = IF result.tag = "Right" THEN None ELSE lastRound
          /\ lastResult' = IF result.tag = "Right"
                           THEN [ kind |-> "ok", op |-> "startNextHand" ]
                           ELSE [ kind |-> "error", error |-> result.error ]
    /\ UNCHANGED loop

\* table.act accepted by the hand in progress; `hand` keeps the hand state
\* hand.act returned, which the table drops when the hand completes.
TableAct(seat, action) ==
    /\ IsSome(table.currentHand)
    /\ countEvents(table.events, "PlayerActed")
         + countEvents(table.currentHand[1].events, "PlayerActed") < MaxSessionActs
    /\ \E first \in { handAct(table.currentHand[1], seat, action, DefaultRanks) } :
          /\ first.tag = "Right"
          /\ \E ranks \in RanksRead(table.currentHand[1], first) :
                \E result \in { IF ranks = DefaultRanks THEN first
                                ELSE handAct(table.currentHand[1], seat, action, ranks) } :
                    /\ table' = keptState(table, tableAfterAct(table, result))
                    /\ hand' = result.state
    /\ lastRound' = Some(applyAction(table.currentHand[1].bettingRound[1], seat, action).state)
    /\ lastResult' = [ kind |-> "ok", seat |-> seat, action |-> action ]
    /\ UNCHANGED loop

\* table.act with no hand in progress (the rejections of hand.act itself are
\* exercised by CallSpec).
TableActRejected(seat, action) ==
    /\ IsNone(table.currentHand)
    /\ \E result \in { tableAct(table, seat, action, DefaultRanks) } :
          /\ result.tag = "Left"
          /\ table' = keptState(table, result)
          /\ lastResult' = [ kind |-> "error", error |-> result.error ]
    /\ UNCHANGED << hand, lastRound, loop >>

TableNext ==
    \/ \E seat \in Seats : \E chips \in TableStackChoices : SitDown(seat, chips)
    \/ \E seat \in Seats : StandUp(seat)
    \/ StartNextHand
    \/ \E seat \in Seats : \E action \in ActionChoices : TableAct(seat, action)
    \/ \E seat \in Seats : TableActRejected(seat, Fold)

TableSpec == TableInit /\ [][TableNext]_vars

\* Game loop: players are seated, a hand is started as in the table session,
\* and each turn of the hand in progress is one pass of the body of
\* playOneHand's loop, with the strategy's answer and the default action
\* drawn from legal and illegal choices.
\* Hands played by the loop.
MaxLoopHands == 1
\* maxActionsPerHand when the options leave it out.
DefaultMaxActions == 500
\* The maxActionsPerHand option of the call.
MaxActionsChoices == { 0, 1, 3, DefaultMaxActions }
StrategyChoices == { Fold, Check, Call, AllIn, Bet(1), Raise(MaxChips) }
DefaultActionChoices == { None, Some(Check), Some(Call), Some(Bet(1)) }

resolveDefault(defaultAction) == IF IsNone(defaultAction) THEN Fold ELSE defaultAction[1]

\* Faulty variant of chooseValidFallback: Check whatever is legal.
chooseCheckAlways(legalActions) == Check

chooseValidFallback(legalActions) ==
    IF legalActions.canCheck THEN Check
    ELSE IF IsSome(legalActions.callAmount) THEN Call
    ELSE Fold

\* The legal actions of a strategy context built without a betting round.
defaultLegal ==
    [ canFold |-> FALSE, canCheck |-> FALSE, callAmount |-> None,
      minBet |-> None, maxBet |-> None, minRaise |-> None, maxRaise |-> None,
      canAllIn |-> FALSE, allInAmount |-> 0 ]

contextLegalActions(state) ==
    LET legalOpt == handGetLegalActions(state.currentHand[1]) IN
    IF IsSome(legalOpt) THEN legalOpt[1] ELSE defaultLegal

\* One pass of the loop body for a table with an active player. The actions
\* the loop would try, in order, and what table.act answers to each; the loop
\* stops at the first one accepted and fails with the last error if none is.
loopTurn(state, strategyAction, defaultAction, ranks) ==
    LET seat == getActivePlayer(state)[1]
        attempts == << strategyAction,
                       resolveDefault(defaultAction),
                       chooseValidFallback(contextLegalActions(state)) >>
    IN  CHOOSE out \in
          { IF \E i \in 1 .. 3 : results[i].tag = "Right"
            THEN LET attempt == SetMin({ i \in 1 .. 3 : results[i].tag = "Right" }) IN
                 [ tag |-> "Right", state |-> results[attempt].state,
                   action |-> attempts[attempt], attempt |-> attempt ]
            ELSE Left(results[3].error) :
              results \in { [ i \in 1 .. 3 |-> tableAct(state, seat, attempts[i], ranks) ] } }
          : TRUE

\* `hand` follows the table's hand in progress; the loop holds no hand state
\* of its own.
LoopTurn(strategyAction, defaultAction) ==
    /\ IsSome(getActivePlayer(table))
    /\ ~(loop.actionCount >= loop.maxActions)
    /\ \E ranks \in RankChoices :
       \E turn \in { loopTurn(table, strategyAction, defaultAction, ranks) } :
          IF turn.tag = "Left"
          THEN /\ lastResult' = [ kind |-> "error", op |-> "loopTurn", error |-> turn.error ]
               /\ UNCHANGED << table, hand, lastRound, loop >>
          ELSE /\ table' = turn.state
               /\ hand' = IF IsSome(turn.state.currentHand) THEN turn.state.currentHand[1]
                          ELSE hand
               /\ lastResult' = [ kind |-> "ok", op |-> "loopTurn",
                                  seat |-> getActivePlayer(table)[1],
                                  action |-> turn.action, attempt |-> turn.attempt ]
               /\ loop' = [ loop EXCEPT !.actionCount = loop.actionCount + 1 ]
               /\ UNCHANGED lastRound

\* The table after the players of `stacks` sat down in seat order.
RECURSIVE seatedTable(_, _, _)
seatedTable(state, order, stacks) ==
    IF Len(order) = 0 THEN state
    ELSE seatedTable(sitDown(state, Head(order), stacks[Head(order)]).state,
                     Tail(order), stacks)

LoopInit ==
    /\ \E S \in SUBSET Seats :
          /\ Cardinality(S) >= 2
          /\ \E stacks \in [ S -> TableStackChoices ] :
                table = seatedTable(createTable(DefaultConfig), SortSeats(S), stacks)
    /\ hand = NoHand
    /\ lastRound = None
    /\ lastResult = [ kind |-> "start" ]
    /\ \E maxActions \in MaxActionsChoices :
          loop = [ maxActions |-> maxActions, actionCount |-> 0 ]
\* The `completed` field of the result playOneHand returns once the loop has
\* no active player left to ask.
loopCompleted(current) ==
    IsNone(current.currentHand) \/ IsNone(getActivePlayer(current))

\* The result playOneHand returns: at the action limit with a player still to
\* act, completed = false; after the loop, the completed of loopCompleted.
playOneHandResult(current, actionCount, maxActions) ==
    IF IsSome(getActivePlayer(current)) /\ actionCount >= maxActions
    THEN [ actionCount |-> actionCount, completed |-> FALSE ]
    ELSE [ actionCount |-> actionCount, completed |-> loopCompleted(current) ]

LoopReturn ==
    /\ \/ IsNone(getActivePlayer(table))
       \/ loop.actionCount >= loop.maxActions
    /\ ~(lastResult.kind = "ok" /\ "op" \in DOMAIN lastResult /\ lastResult.op = "playOneHand")
    /\ \E result \in { playOneHandResult(table, loop.actionCount, loop.maxActions) } :
          lastResult' = [ kind |-> "ok", op |-> "playOneHand",
                          actionCount |-> result.actionCount,
                          completed |-> result.completed ]
    /\ UNCHANGED << table, hand, lastRound, loop >>

LoopNext ==
    \/ (table.handCount < MaxLoopHands /\ StartNextHand)
    \/ LoopReturn
    \/ \E strategyAction \in StrategyChoices : \E defaultAction \in DefaultActionChoices :
          LoopTurn(strategyAction, defaultAction)

LoopSpec == LoopInit /\ [][LoopNext]_vars

\* Betting-round session: a round is created over fresh players with no bet
\* out and driven by applyAction alone, one legal simple action of the active
\* player at a time, as the property tests of the betting round do. `hand`
\* holds the driver's count of actions, `lastRound` the round.
MaxRoundPlayers == 8
MaxRoundActions == 40
RoundMinRaise == 10
MaxSmallRoundStack == 3

\* Equal stacks, stacks rising with the seat, stacks falling with the seat, and
\* for two or three players every choice of small stacks.
RoundStackChoices ==
    UNION { { [ s \in 0 .. (n - 1) |-> n ],
              [ s \in 0 .. (n - 1) |-> s + 1 ],
              [ s \in 0 .. (n - 1) |-> n - s ] } : n \in 2 .. MaxRoundPlayers }
      \cup UNION { [ 0 .. (n - 1) -> 1 .. MaxSmallRoundStack ] : n \in 2 .. 3 }

RoundInit ==
    /\ \E stacks \in RoundStackChoices :
          /\ lastRound = Some(createBettingRound("test", freshPlayers(stacks),
                                                 SetMin(DOMAIN stacks), 0, RoundMinRaise))
          /\ hand = [ phase |-> "Round", numPlayers |-> Cardinality(DOMAIN stacks),
                      actionCount |-> 0 ]
    /\ table = createTable(DefaultConfig)
    /\ lastResult = [ kind |-> "start" ]
    /\ loop = NoLoop
\* The simple actions the legal actions offer.
simpleCandidates(legal) ==
    { a \in SimpleActions :
        \/ (a = Fold /\ legal.canFold)
        \/ (a = Check /\ legal.canCheck)
        \/ (a = Call /\ IsSome(legal.callAmount))
        \/ (a = AllIn /\ legal.canAllIn) }

\* The round after the chosen action, or after Fold if it was rejected.
playActionByChoice(state, action) ==
    LET attempts ==
          { IF result.tag = "Right" THEN result.state
            ELSE LET foldResult == applyAction(state, activePlayer(state)[1], Fold) IN
                 IF foldResult.tag = "Right" THEN foldResult.state ELSE state :
              result \in { applyAction(state, activePlayer(state)[1], action) } }
    IN  CHOOSE out \in attempts : TRUE

PlayAction(action) ==
    /\ hand.actionCount < MaxRoundActions
    /\ ~lastRound[1].isComplete
    /\ IsSome(activePlayer(lastRound[1]))
    /\ action \in simpleCandidates(getLegalActions(lastRound[1]))
    /\ lastRound' = Some(playActionByChoice(lastRound[1], action))
    /\ hand' = [ hand EXCEPT !.actionCount = hand.actionCount + 1 ]
    /\ lastResult' = [ kind |-> "ok", op |-> "applyAction" ]
    /\ UNCHANGED << table, loop >>

RoundNext == \E action \in SimpleActions : PlayAction(action)

RoundSpec == RoundInit /\ [][RoundNext]_vars

\* Round session of a caller that also replaces players with updatePlayer
\* between the actions: rounds of two or three players with small stacks.
\* Replacements are made during the first actions of the round only.
MaxEditedRoundPlayers == 3
MaxUpdateDepth == 1

RoundEditInit ==
    /\ \E n \in 2 .. MaxEditedRoundPlayers :
       \E stacks \in [ 0 .. (n - 1) -> 1 .. MaxSmallRoundStack ] :
          /\ lastRound = Some(createBettingRound("test", freshPlayers(stacks),
                                                 SetMin(DOMAIN stacks), 0, RoundMinRaise))
          /\ hand = [ phase |-> "Round", numPlayers |-> n, actionCount |-> 0 ]
    /\ table = createTable(DefaultConfig)
    /\ lastResult = [ kind |-> "start" ]
    /\ loop = NoLoop

\* Players a caller builds from a player of the round with the player
\* functions: one chip won, folded, a bet of two placed, the bet collected,
\* or a fresh player with one chip on the same seat.
playerEdits(player) ==
    { winChips(player, 1), foldPlayer(player), collectBet(player),
      createPlayer(player.seatIndex, 1) }
      \cup (IF player.chips >= 2 THEN { placeBet(player, 2) } ELSE {})

UpdatePlayer(updatedPlayer) ==
    /\ hand.actionCount <= MaxUpdateDepth
    /\ updatedPlayer.chips + updatedPlayer.currentBet <= MaxChips
    /\ lastRound' = Some(updatePlayer(lastRound[1], updatedPlayer))
    /\ lastResult' = [ kind |-> "ok", op |-> "updatePlayer" ]
    /\ UNCHANGED << hand, table, loop >>

RoundEditSpec ==
    RoundEditInit
    /\ [][ \/ \E action \in SimpleActions : PlayAction(action)
           \/ \E i \in 1 .. MaxEditedRoundPlayers :
                 /\ i <= Len(lastRound[1].players)
                 /\ \E updatedPlayer \in playerEdits(lastRound[1].players[i]) :
                       UpdatePlayer(updatedPlayer) ]_vars

\* ------------------------------------------------------------------ claims

Streets == { "Preflop", "Flop", "Turn", "River" }

\* Chips in play in a hand state: stacks, current bets and pots.
chipsInPlay(h) ==
    SumSeq(MapSeq(h.players, LAMBDA p : p.chips + p.currentBet)) + totalPotSize(h.pots)

nonFoldedSeats(players) ==
    { players[i].seatIndex : i \in { j \in 1 .. Len(players) : ~players[j].isFolded } }

canActSeats(players) ==
    { players[i].seatIndex : i \in { j \in 1 .. Len(players) : canAct(players[j]) } }

numActions(h) == countEvents(h.events, "PlayerActed")

\* Every action taken so far in the hand is Fold, Check, Call or AllIn.
simpleHistory(h) ==
    \A i \in 1 .. Len(h.events) :
        h.events[i].tag = "PlayerActed" => h.events[i].action \in SimpleActions

\* The step is an accepted AllIn by a player whose total exceeds the biggest
\* bet by less than the minimum raise.
shortAllInStep ==
    /\ lastResult'.kind = "ok"
    /\ lastResult'.action = AllIn
    /\ LET r == hand.bettingRound[1]
           p == getPlayer(r, lastResult'.seat)
       IN  /\ p.currentBet + p.chips > r.biggestBet
           /\ p.currentBet + p.chips - r.biggestBet < r.minRaise

\* C1: chip conservation over a hand -- every accepted action, the one that
\* completes the hand included, leaves chips + current bets + pots equal to
\* what it was before (hence equal to the initial hand state's sum).
C1_ChipConservation == [][ chipsInPlay(hand') = chipsInPlay(hand) ]_vars

\* C2: termination -- after any sequence of legal simple actions the hand is
\* Complete, or fewer than n * 8 actions were taken and the active player has
\* a legal simple action to take.
C2_Termination ==
    (simpleHistory(hand) /\ hand.phase # "Complete")
        => /\ numActions(hand) < Len(hand.players) * 8
           /\ IsSome(handActivePlayer(hand))
           /\ \E a \in SimpleActions :
                 handAct(hand, handActivePlayer(hand)[1], a, DefaultRanks).tag = "Right"

\* C3: a short all-in raises biggest_bet to the all-in total and keeps every
\* seat that was in acted before the action in acted afterwards.
C3_ShortAllInKeepsActed ==
    [][ shortAllInStep =>
          LET r == hand.bettingRound[1]
              p == getPlayer(r, lastResult'.seat)
          IN  /\ lastRound'[1].biggestBet = p.currentBet + p.chips
              /\ r.actedThisRound \subseteq lastRound'[1].actedThisRound ]_vars

\* The PlayerActed events of a hand, in order.
actionsTaken(h) == SelectSeq(h.events, LAMBDA e : e.tag = "PlayerActed")

\* Preflop, full big blind posted: one seat called, then another went all-in
\* for one chip more than the big blind (less than a full raise); the caller
\* is still in the queue and is no longer in acted.
C3_CallerMustActAgain ==
    /\ IsSome(lastRound)
    /\ hand.phase = "Preflop"
    /\ hand.events[2].bigBlind.amount = hand.forcedBets.bigBlind
    /\ Len(actionsTaken(hand)) = 2
    /\ actionsTaken(hand)[1].action = Call
    /\ actionsTaken(hand)[2].action = AllIn
    /\ lastRound[1].biggestBet = hand.forcedBets.bigBlind + 1
    /\ lastRound[1].minRaise = hand.forcedBets.bigBlind
    /\ actionsTaken(hand)[1].seat \in Range(lastRound[1].activeSeatOrder)
    /\ actionsTaken(hand)[1].seat \notin lastRound[1].actedThisRound

\* The complete rounds in view: the round the hand holds and the round the
\* last accepted action returned.
completeRounds ==
    { r \in ( IF hand.phase \in Streets /\ IsSome(hand.bettingRound)
              THEN { hand.bettingRound[1] } ELSE {} )
            \cup ( IF IsSome(lastRound) THEN { lastRound[1] } ELSE {} ) :
        r.isComplete }

\* C4: when a betting round is complete with two or more non-folded players,
\* every non-folded player who is not all-in has current_bet = biggest_bet.
C4_BetsMatchedAtClose ==
    \A r \in completeRounds :
        Cardinality(nonFoldedSeats(r.players)) >= 2
            => \A i \in 1 .. Len(r.players) :
                  (~r.players[i].isFolded /\ ~r.players[i].isAllIn)
                      => r.players[i].currentBet = r.biggestBet

\* C5 as stated: a betting round is present exactly when the phase admits
\* actions and at least two players can act.
C5_RoundIffTwoCanAct ==
    IsSome(hand.bettingRound)
        <=> (hand.phase \in Streets /\ Cardinality(canActSeats(hand.players)) >= 2)

\* C5, amended: a betting round is present exactly when the phase admits
\* actions (Preflop, Flop, Turn, River), however many players can act; and
\* whenever two or more players can act the round is open, with a seat to act.
C5_RoundIffStreet ==
    /\ IsSome(hand.bettingRound) <=> hand.phase \in Streets
    /\ (hand.phase \in Streets /\ Cardinality(canActSeats(hand.players)) >= 2)
          => /\ ~hand.bettingRound[1].isComplete
             /\ IsSome(handActivePlayer(hand))

\* An open round in which a single player can act: the others are all-in or
\* folded and the player left must still answer the bet.
C5_OnePlayerFacingAllIn ==
    /\ hand.phase \in Streets
    /\ IsSome(hand.bettingRound)
    /\ ~hand.bettingRound[1].isComplete
    /\ IsSome(handActivePlayer(hand))
    /\ Cardinality(canActSeats(hand.players)) = 1
    /\ numActions(hand) >= 1

seatChips(t) == SumSeq(MapSeq(SortSeats(DOMAIN t.seats), LAMBDA s : t.seats[s].chips))

\* C6: the table act that completes a hand leaves the sum of chips over all
\* seats what it was while the hand ran, which is the sum before startNextHand
\* (plus the stacks of players who sat down meanwhile: the seat map changes in
\* no other way during a hand).
C6_TableChipConservation ==
    [][ (IsSome(table.currentHand) /\ IsNone(table'.currentHand))
            => seatChips(table') = seatChips(table) ]_vars

\* The step runs the showdown.
showdownStep ==
    /\ hand.phase \in Streets
    /\ hand'.phase = "Complete"
    /\ \E i \in (Len(hand.events) + 1) .. Len(hand'.events) :
          hand'.events[i] = ShowdownStarted

\* C7: every pot that exists when the showdown awards the pots has at least
\* one contender, an eligible seat whose player has not folded.
C7_NoDeadMoney ==
    [][ showdownStep =>
          \A pot \in Range(collectBets(lastRound'[1].players, hand.pots).pots) :
              \E s \in Range(pot.eligibleSeats) :
                  s \in nonFoldedSeats(lastRound'[1].players) ]_vars

\* C8 as stated: in every hand state no pot lists a folded player's seat as
\* eligible.
C8_NoFoldedSeatInAnyPot ==
    hand.phase \in Streets =>
        \A pot \in Range(hand.pots) :
            \A s \in Range(pot.eligibleSeats) : s \in nonFoldedSeats(hand.players)

\* C8, amended: a pot that a step creates, or merges bets into, lists no seat
\* of a player folded at that time; a pot collected earlier keeps the seats it
\* was created with, a player who folded since included.
C8_NoFoldedSeatInCollectedPot ==
    [][ hand'.phase \in Streets =>
          \A i \in 1 .. Len(hand'.pots) :
              (i > Len(hand.pots) \/ hand'.pots[i] # hand.pots[i])
                  => \A s \in Range(hand'.pots[i].eligibleSeats) :
                        s \in nonFoldedSeats(hand'.players) ]_vars

\* Bets were collected from a player who had folded: the hand holds pots, a
\* player is folded, and his seat is in none of them.
C8_FoldedContributorLeftOut ==
    /\ hand.phase \in Streets
    /\ Len(hand.pots) >= 1
    /\ \E e \in Range(hand.events) : e.tag = "BettingRoundEnded"
    /\ \E i \in 1 .. Len(hand.players) :
          /\ hand.players[i].isFolded
          /\ \A pot \in Range(hand.pots) :
                hand.players[i].seatIndex \notin Range(pot.eligibleSeats)

\* C9: after every accepted betting action the returned round is complete
\* exactly when (a) at most one non-folded player remains, or (b) the active
\* queue is empty, or (c) the queue is non-empty and every seat in it is in
\* acted.
C9_RoundCompletion ==
    IsSome(lastRound) =>
        LET r == lastRound[1] IN
        r.isComplete <=>
            \/ Cardinality(nonFoldedSeats(r.players)) <= 1
            \/ Len(r.activeSeatOrder) = 0
            \/ /\ Len(r.activeSeatOrder) > 0
               /\ Range(r.activeSeatOrder) \subseteq r.actedThisRound

\* An action closed the round by (c) alone: two or more players are in the
\* hand, the queue is not empty, and everyone in it has acted.
C9_ClosedByAllActed ==
    /\ IsSome(lastRound)
    /\ lastRound[1].isComplete
    /\ Cardinality(nonFoldedSeats(lastRound[1].players)) >= 2
    /\ Len(lastRound[1].activeSeatOrder) >= 2
    /\ Range(lastRound[1].activeSeatOrder) \subseteq lastRound[1].actedThisRound

RejectionTags == { "InvalidAction", "NotPlayersTurn" }

\* What every call on the hand as it stands gives back when it is rejected.
\* A rejection of the betting round is a Left holding the error and nothing
\* else (no round, no events); hand.act hands back that same error alone, with
\* no hand state and nothing logged; and hand.act answers InvalidAction or
\* NotPlayersTurn only when the betting round itself refused the action, never
\* after the action was applied (while collecting bets, dealing or awarding).
rejectedCallsReturnOnlyError ==
    \A seat \in Seats : \A action \in ActionChoices :
        \A r \in { handAct(hand, seat, action, DefaultRanks) } :
            IF hand.phase \in { "Complete", "Showdown" } \/ IsNone(hand.bettingRound)
            THEN r.tag = "Left" /\ r.error.tag \notin RejectionTags
            ELSE \A b \in { applyAction(hand.bettingRound[1], seat, action) } :
                    /\ b.tag = "Left" =>
                          /\ DOMAIN b = { "tag", "error" }
                          /\ b.error.tag \in RejectionTags
                          /\ DOMAIN r = { "tag", "error" }
                          /\ r.tag = "Left"
                          /\ r.error = b.error
                    /\ (r.tag = "Left" /\ r.error.tag \in RejectionTags) => b.tag = "Left"

\* C10: a call rejected with InvalidAction or NotPlayersTurn returns only the
\* error: the betting round and the hand give back the error and no state, so
\* nothing of the input (players, queue, index, biggest bet, minimum raise,
\* acted, pots, phase, events) comes back changed, and no call is refused
\* with one of these errors after part of it was applied. After a rejected
\* call the hand and the round are the ones before the call, so the hand
\* accepts exactly the calls it accepted before.
C10_RejectionLeavesState ==
    /\ [] rejectedCallsReturnOnlyError
    /\ [][ ( /\ lastResult'.kind = "error"
             /\ lastResult'.error.tag \in RejectionTags )
               => /\ hand' = hand
                  /\ lastRound' = lastRound ]_vars

\* A call was rejected with InvalidAction in the middle of a hand, after
\* accepted actions, with a seat still to act.
C10_RejectedMidHand ==
    /\ lastResult.kind = "error"
    /\ lastResult.error.tag = "InvalidAction"
    /\ numActions(hand) >= 1
    /\ IsSome(handActivePlayer(hand))

\* Position of a phase in the order Preflop < Flop < Turn < River < Showdown
\* < Complete.
phaseIndex(phase) ==
    CASE phase = "Preflop" -> 0
      [] phase = "Flop" -> 1
      [] phase = "Turn" -> 2
      [] phase = "River" -> 3
      [] phase = "Showdown" -> 4
      [] phase = "Complete" -> 5

\* C11: phase monotonicity -- no act call returns a hand state whose phase is
\* earlier than the phase of the state it was given.
C11_PhaseMonotonic == [][ phaseIndex(hand'.phase) >= phaseIndex(hand.phase) ]_vars

\* A hand that went through betting on the flop and reached the turn or a
\* later street with a round still to play.
C11_ReachedLaterStreet ==
    /\ hand.phase \in { "Turn", "River" }
    /\ numActions(hand) >= 3
    /\ IsSome(handActivePlayer(hand))

\* C12: the number of community cards is 0 at Preflop, 3 at Flop, 4 at Turn,
\* 5 at River and Showdown; at Complete it is 0, 3, 4 or 5, and 0 only when
\* the hand ended before the flop with a single player left unfolded.
C12_CommunityMatchesPhase ==
    /\ hand.phase = "Preflop" => hand.communityCards = 0
    /\ hand.phase = "Flop" => hand.communityCards = 3
    /\ hand.phase = "Turn" => hand.communityCards = 4
    /\ hand.phase \in { "River", "Showdown" } => hand.communityCards = 5
    /\ hand.phase = "Complete" =>
          /\ hand.communityCards \in { 0, 3, 4, 5 }
          /\ hand.communityCards = 0 =>
                /\ Cardinality(nonFoldedSeats(hand.players)) = 1
                /\ countEvents(hand.events, "CommunityCardsDealt") = 0

\* A hand completed on the turn by folds, with four community cards dealt.
C12_CompleteOnTurn ==
    /\ hand.phase = "Complete"
    /\ hand.communityCards = 4
    /\ countEvents(hand.events, "ShowdownStarted") = 0

\* C13: every player's chips and current bet are never negative, after blind
\* posting and after every accepted action with the collection and awards it
\* triggers.
C13_NoNegativeChips ==
    \A i \in 1 .. Len(hand.players) :
        hand.players[i].chips >= 0 /\ hand.players[i].currentBet >= 0

\* The last accepted action was a Call that took the caller's last chip.
C13_CallForLastChip ==
    /\ lastResult.kind = "ok"
    /\ lastResult.action = Call
    /\ IsSome(lastRound)
    /\ getPlayer(lastRound[1], lastResult.seat).chips = 0
    /\ getPlayer(lastRound[1], lastResult.seat).currentBet > 0

closedWithAllAllIn ==
    /\ lastResult'.kind = "ok"
    /\ IsSome(lastRound')
    /\ lastRound'[1].isComplete
    /\ Cardinality(nonFoldedSeats(lastRound'[1].players)) >= 2
    /\ canActSeats(lastRound'[1].players) = {}

\* C15: when an action closes a round with two or more non-folded players and
\* nobody able to act, the same call creates no betting round, deals every
\* remaining street and runs the showdown: the returned hand is Complete with
\* exactly 5 community cards.
C15_AllInRunsOut ==
    [][ closedWithAllAllIn =>
          /\ hand'.phase = "Complete"
          /\ hand'.communityCards = 5
          /\ IsNone(hand'.bettingRound)
          /\ countEvents(hand'.events, "ShowdownStarted") = 1
          /\ countEvents(hand'.events, "BettingRoundEnded")
               = countEvents(hand.events, "BettingRoundEnded") + 2 ]_vars

\* A preflop round closed with everyone left all-in; flop, turn and river
\* were dealt by that one call and the hand is complete.
C15_RunOutFromPreflop ==
    /\ IsSome(lastRound)
    /\ lastRound[1].name = "Preflop"
    /\ lastRound[1].isComplete
    /\ Cardinality(nonFoldedSeats(lastRound[1].players)) >= 2
    /\ canActSeats(lastRound[1].players) = {}
    /\ hand.phase = "Complete"
    /\ hand.communityCards = 5
    /\ countEvents(hand.events, "CommunityCardsDealt") = 3

\* The accepted action of this step left at most one player unfolded.
leftOnePlayer ==
    /\ lastResult'.kind = "ok"
    /\ IsSome(lastRound')
    /\ Cardinality(nonFoldedSeats(lastRound'[1].players)) <= 1

\* C16: when an action leaves at most one non-folded player, the same call
\* collects the bets and awards every pot in full to that player in pot
\* order: the returned hand is Complete with no pots and no bets, the winner
\* holds their chips plus every pot, and the event list ends with one
\* PotAwarded per pot, in pot order, then HandEnded.
C16_AwardToLastPlayer ==
    [][ leftOnePlayer =>
          LET pots == collectBets(lastRound'[1].players, hand.pots).pots
              winner == CHOOSE s \in nonFoldedSeats(lastRound'[1].players) : TRUE
              n == Len(hand'.events)
          IN  /\ hand'.phase = "Complete"
              /\ hand'.pots = << >>
              /\ \A i \in 1 .. Len(hand'.players) :
                    /\ hand'.players[i].currentBet = 0
                    /\ hand'.players[i].chips
                         = lastRound'[1].players[i].chips
                             + (IF hand'.players[i].seatIndex = winner
                                THEN totalPotSize(pots) ELSE 0)
              /\ n >= Len(pots) + 1
              /\ hand'.events[n] = HandEnded
              /\ \A i \in 1 .. Len(pots) :
                    hand'.events[n - 1 - Len(pots) + i] = PotAwarded(winner, pots[i].amount, i - 1)
              /\ countEvents(hand'.events, "PotAwarded") = Len(pots) ]_vars

\* A hand ended by a fold after at least two actions, with two or more pots
\* awarded to the player left.
C16_SeveralPotsToLastPlayer ==
    /\ hand.phase = "Complete"
    /\ Cardinality(nonFoldedSeats(hand.players)) = 1
    /\ countEvents(hand.events, "ShowdownStarted") = 0
    /\ countEvents(hand.events, "PotAwarded") >= 2
    /\ numActions(hand) >= 2

\* The seats of the players dealt into a hand.
handSeats(h) == { h.players[i].seatIndex : i \in 1 .. Len(h.players) }

\* The first seat of S met clockwise (by rising seat number, wrapping) after
\* seat s.
nextSeatAfter(S, s) ==
    IF { x \in S : x > s } # {} THEN SetMin({ x \in S : x > s }) ELSE SetMin(S)

\* The BlindsPosted event of a hand.
blindsPosted(h) == h.events[2]

\* C17: in every hand started through start_next_hand, heads-up the table's
\* button seat posts the small blind and the other seat the big blind; with
\* three or more players the first seat after the button posts the small
\* blind and the second seat after the button posts the big blind.
C17_BlindPositions ==
    IsSome(table.currentHand) =>
        LET h == table.currentHand[1]
            button == table.button[1]
            sb == blindsPosted(h).smallBlind.seat
            bb == blindsPosted(h).bigBlind.seat
        IN  IF Cardinality(handSeats(h)) = 2
            THEN /\ sb = button
                 /\ bb \in handSeats(h) \ { button }
            ELSE /\ sb = nextSeatAfter(handSeats(h), button)
                 /\ bb = nextSeatAfter(handSeats(h), sb)

\* A hand started by start_next_hand whose table button sits on a seat that
\* was not dealt in.
C17_ButtonOutOfHand ==
    /\ IsSome(table.currentHand)
    /\ table.button[1] \notin handSeats(table.currentHand[1])
    /\ blindsPosted(table.currentHand[1]).smallBlind.seat # table.button[1]

\* The hand state is the one startHand returned: no action was taken yet.
justStarted(h) == h.phase = "Preflop" /\ numActions(h) = 0

\* C18: each blind poster posts min(forced amount, chips), the chips being
\* those of its seat when the hand is started; right after the start the
\* poster's current bet is the posted amount, their chips are reduced by it,
\* and they are all-in exactly when the posting took all their chips.
C18_ShortStackBlinds ==
    (IsSome(table.currentHand) /\ justStarted(table.currentHand[1])) =>
        \A blind \in { "smallBlind", "bigBlind" } :
            LET h == table.currentHand[1]
                posted == blindsPosted(h)[blind]
                p == findPlayer(h.players, posted.seat)
                stack == table.seats[posted.seat].chips
            IN  /\ posted.amount = Min2(h.forcedBets[blind], stack)
                /\ p.currentBet = posted.amount
                /\ p.chips = stack - posted.amount
                /\ p.isAllIn <=> (stack = posted.amount)

\* A hand just started in which the big blind was posted short, leaving its
\* poster all-in, while the small blind was posted in full with chips behind.
C18_ShortBigBlind ==
    /\ IsSome(table.currentHand)
    /\ justStarted(table.currentHand[1])
    /\ LET h == table.currentHand[1] IN
       /\ blindsPosted(h).bigBlind.amount < h.forcedBets.bigBlind
       /\ findPlayer(h.players, blindsPosted(h).bigBlind.seat).isAllIn
       /\ blindsPosted(h).smallBlind.amount = h.forcedBets.smallBlind
       /\ ~findPlayer(h.players, blindsPosted(h).smallBlind.seat).isAllIn

\* C19: right after a hand is started the active player is, heads-up, the
\* button / small blind seat_order[0]; with three or more players, the seat
\* immediately after the big blind in seat_order.
C19_PreflopFirstToAct ==
    justStarted(hand) =>
        LET order == hand.seatOrder
            bbIdx == IndexOf(order, blindsPosted(hand).bigBlind.seat)
        IN  handActivePlayer(hand)
              = Some(IF Len(order) = 2 THEN order[1]
                     ELSE order[((bbIdx + 1) % Len(order)) + 1])

\* A heads-up hand just started whose big blind is all-in on the blind while
\* the small blind still has chips and a bet to answer, and no seat is active.
C19_SmallBlindNotAsked ==
    /\ justStarted(hand)
    /\ Len(hand.seatOrder) = 2
    /\ findPlayer(hand.players, hand.seatOrder[2]).isAllIn
    /\ canAct(findPlayer(hand.players, hand.seatOrder[1]))
    /\ findPlayer(hand.players, hand.seatOrder[1]).currentBet
         < findPlayer(hand.players, hand.seatOrder[2]).currentBet
    /\ IsNone(handActivePlayer(hand))

\* C20: for every hand started by start_next_hand, seat_order is the seats
\* dealt into the hand, ascending and rotated so that the button is first:
\* the table's button is one of the seats playing the hand and seat_order[0]
\* is the button.
C20_SeatOrderFromButton ==
    IsSome(table.currentHand) =>
        LET h == table.currentHand[1]
            button == table.button[1]
            sorted == SortSeats(handSeats(h))
        IN  /\ button \in handSeats(h)
            /\ h.button = button
            /\ h.seatOrder[1] = button
            /\ h.seatOrder = Rotate(sorted, IndexOf(sorted, button))

\* A hand in progress whose seat_order starts with a seat other than the
\* table's button, the button being on a seat without chips.
C20_OrderNotFromButton ==
    /\ IsSome(table.currentHand)
    /\ table.currentHand[1].seatOrder[1] # table.button[1]
    /\ table.button[1] \in DOMAIN table.seats
    /\ table.seats[table.button[1]].chips = 0

\* The step is an accepted start_next_hand.
handStartedStep ==
    /\ lastResult'.kind = "ok"
    /\ "op" \in DOMAIN lastResult'
    /\ lastResult'.op = "startNextHand"

\* C21: on the first hand of a table the button is the smallest occupied
\* seat; on every later hand it is the smallest occupied seat strictly
\* greater than the previous button, or the smallest occupied seat when none
\* is greater.
C21_ButtonRotation ==
    [][ handStartedStep =>
          LET occupied == DOMAIN table.seats
              greater == { s \in occupied : IsSome(table.button) /\ s > table.button[1] }
          IN  table'.button
                = Some(IF IsNone(table.button) \/ greater = {}
                       THEN SetMin(occupied) ELSE SetMin(greater)) ]_vars

\* A second hand was started with the button moved up from seat 0 to seat 1
\* although seat 2 is occupied too.
C21_ButtonMovedToNextSeat ==
    /\ table.handCount = 2
    /\ IsSome(table.currentHand)
    /\ table.button = Some(1)
    /\ DOMAIN table.seats = { 0, 1, 2 }
    /\ hand.button = 1
    /\ \E i \in 1 .. Len(table.events) :
          table.events[i].tag = "HandStarted" /\ table.events[i].button = 0

\* The step is a call of collectBets.
collectStep ==
    /\ lastResult'.kind = "ok"
    /\ "op" \in DOMAIN lastResult'
    /\ lastResult'.op = "collectBets"

totalBets(players) == SumSeq(MapSeq(players, LAMBDA p : p.currentBet))

\* C22: pot conservation -- the pot amounts returned by collect_bets sum to
\* the players' current bets before collection, folded players' included,
\* plus the existing pots' amounts; every returned player has current bet 0.
C22_PotConservation ==
    [][ collectStep =>
          /\ totalPotSize(hand'.pots) = totalBets(hand.players) + totalPotSize(hand.pots)
          /\ \A i \in 1 .. Len(hand'.players) : hand'.players[i].currentBet = 0 ]_vars

\* Bets were collected, a folded player's among them, on top of existing pots.
C22_CollectedOverExistingPots ==
    /\ lastResult.kind = "ok"
    /\ lastResult.op = "collectBets"
    /\ Len(hand.pots) >= 3
    /\ totalPotSize(hand.pots) >= 7
    /\ \E i \in 1 .. Len(hand.players) : hand.players[i].isFolded

\* The distinct positive bets, ascending: the levels the sweep stops at.
betLevels(players) ==
    SortSeats({ players[i].currentBet :
                  i \in { j \in 1 .. Len(players) : players[j].currentBet > 0 } })

\* The pot of the k-th level: every player gives what of their bet lies
\* between the level below and this level (min(remaining bet, m) for the
\* remaining bets and the smallest positive one, m); eligible are the
\* non-folded players whose bet reaches the level.
layerPot(players, k) ==
    LET levels == betLevels(players)
        below == IF k = 1 THEN 0 ELSE levels[k - 1]
        part(p) == IF p.currentBet <= below THEN 0
                   ELSE Min2(p.currentBet, levels[k]) - below
    IN  createPot(SumSeq(MapSeq(players, part)),
                  MapSeq(SelectSeq(players,
                                   LAMBDA p : ~p.isFolded /\ p.currentBet >= levels[k]),
                         LAMBDA p : p.seatIndex))

\* C23: side-pot layering -- collected with no existing pot, the bets give
\* one pot per level m, of amount the sum over all players of min(remaining
\* bet, m) and eligible to exactly the non-folded players whose remaining bet
\* is at least m; bets 30 (all-in), 70 (all-in), 100 of seats 0, 1, 2 give
\* the pots {90, {0,1,2}}, {80, {1,2}}, {30, {2}} in that order.
C23_SidePotLayering ==
    [][ (collectStep /\ hand.pots = << >>) =>
          /\ hand'.pots = [ k \in 1 .. Len(betLevels(hand.players)) |->
                              layerPot(hand.players, k) ]
          /\ hand = S4Input =>
                hand'.pots = << createPot(90, << 0, 1, 2 >>),
                                createPot(80, << 1, 2 >>),
                                createPot(30, << 2 >>) >> ]_vars

\* The bets 30, 70, 100 were collected into three pots.
C23_ThreeLayers ==
    /\ lastResult.kind = "ok"
    /\ lastResult.op = "collectBets"
    /\ Len(hand.pots) = 3
    /\ hand.pots[1].amount = 90
    /\ hand.pots[3].eligibleSeats = << 2 >>

\* C24: pot merge rule -- collect_bets adds the first newly created pot to the
\* last existing pot exactly when their eligible sets are equal; the earlier
\* existing pots come back unchanged and in order, and the other new pots
\* follow in creation order.
C24_PotMergeRule ==
    [][ collectStep =>
          LET existing == hand.pots
              created == [ k \in 1 .. Len(betLevels(hand.players)) |->
                             layerPot(hand.players, k) ]
              n == Len(existing)
          IN  IF n = 0 THEN hand'.pots = created
              ELSE IF Len(created) = 0 THEN hand'.pots = existing
              ELSE IF Range(existing[n].eligibleSeats) = Range(created[1].eligibleSeats)
              THEN hand'.pots
                     = SubSeq(existing, 1, n - 1)
                       \o << createPot(existing[n].amount + created[1].amount,
                                       existing[n].eligibleSeats) >>
                       \o Tail(created)
              ELSE hand'.pots = existing \o created ]_vars

\* Two existing pots and two new ones: the first new pot went into the second
\* existing pot, the first existing pot is untouched and one new pot follows.
C24_MergedIntoLastPot ==
    /\ lastResult.kind = "ok"
    /\ lastResult.op = "collectBets"
    /\ Len(hand.pots) = 3
    /\ hand.pots[1] = createPot(3, << 0, 1, 2 >>)
    /\ hand.pots[2].eligibleSeats = << 1, 2 >>
    /\ hand.pots[2].amount > 1

\* The step is a call of awardPots.
awardStep ==
    /\ lastResult'.kind = "ok"
    /\ "op" \in DOMAIN lastResult'
    /\ lastResult'.op = "awardPots"

\* The seats that win a pot: the eligible seats with a hand whose rank is the
\* highest among them.
tiedWinners(pot, playerHands) ==
    LET contenders == Range(pot.eligibleSeats) \cap DOMAIN playerHands IN
    { s \in contenders : \A t \in contenders : playerHands[t] <= playerHands[s] }

\* The first seat of W in seat_order rotated to start at the seat right after
\* the button.
firstAfterButton(W, button, seatOrder) ==
    LET n == Len(seatOrder)
        at(i) == seatOrder[((IndexOf(seatOrder, button) + i) % n) + 1]
    IN  at(SetMin({ i \in 1 .. n : at(i) \in W }))

\* C25: odd-chip allocation -- when a pot of amount A is tied among k >= 2
\* winners, each winner receives floor(A / k) and the whole remainder goes to
\* the one winner who comes first in seat_order rotated to start at the seat
\* right after the button; the pot of 301 tied between seats 0 and 2 with the
\* button on seat 1 and seat_order [0,1,2,3] gives seat 2 151 and seat 0 150.
C25_OddChipAllocation ==
    [][ (awardStep /\ Len(hand.pots) = 1) =>
          LET pot == hand.pots[1]
              awards == lastResult'.awards
              winners == tiedWinners(pot, lastResult'.playerHands)
              k == Cardinality(winners)
              share == pot.amount \div k
              first == firstAfterButton(winners, hand.button, hand.seatOrder)
          IN  /\ k >= 2 =>
                   /\ Len(awards) = k
                   /\ Range(awards)
                        = { [ seat |-> w,
                              amount |-> IF w = first
                                         THEN share + (pot.amount - k * share)
                                         ELSE share ] : w \in winners }
              /\ (hand = S5Input /\ winners = { 0, 2 }) =>
                   Range(awards) = { [ seat |-> 2, amount |-> 151 ],
                                     [ seat |-> 0, amount |-> 150 ] } ]_vars

\* The pot of 301 was awarded to the tied seats 0 and 2.
C25_OddChipToSeatTwo ==
    /\ lastResult.kind = "ok"
    /\ lastResult.op = "awardPots"
    /\ hand = S5Input
    /\ lastResult.playerHands = S5Ranks
    /\ Len(lastResult.awards) = 2

\* The step completes the table's hand in progress.
handCompletedStep ==
    /\ IsSome(table.currentHand)
    /\ IsNone(table'.currentHand)

\* C26 as stated: whenever a hand completes at a table, the current hand is
\* cleared and no seated player has 0 chips.
C26_NoZeroChipSeat ==
    [][ handCompletedStep =>
          /\ table'.currentHand = None
          /\ \A s \in DOMAIN table'.seats : table'.seats[s].chips > 0 ]_vars

\* C26 amended: whenever a hand completes at a table, the current hand is
\* cleared, every player of the hand's final roster who ended with 0 chips has
\* left the seats, every other player of the roster sits with the hand's final
\* chip count, and the seats that were not in the hand are as they were.
C26_BustedRemoved ==
    [][ handCompletedStep =>
          /\ table'.currentHand = None
          /\ \A i \in 1 .. Len(hand'.players) :
                LET p == hand'.players[i] IN
                IF p.chips = 0 THEN p.seatIndex \notin DOMAIN table'.seats
                ELSE /\ p.seatIndex \in DOMAIN table'.seats
                     /\ table'.seats[p.seatIndex].chips = p.chips
          /\ \A s \in DOMAIN table.seats :
                ~hasPlayer(hand'.players, s) =>
                    /\ s \in DOMAIN table'.seats
                    /\ table'.seats[s] = table.seats[s] ]_vars

\* A hand has completed and a player who lost the last chip is no longer seated.
C26_BustedSeatGone ==
    /\ IsNone(table.currentHand)
    /\ table.handCount >= 1
    /\ lastResult.kind = "ok"
    /\ "seat" \in DOMAIN lastResult
    /\ \E i \in 1 .. Len(hand.players) :
          /\ hand.players[i].chips = 0
          /\ hand.players[i].seatIndex \notin DOMAIN table.seats

\* Sequence a is a prefix of sequence b.
isPrefix(a, b) == Len(a) <= Len(b) /\ SubSeq(b, 1, Len(a)) = a

\* C27: event log ordering -- every successful transition only appends events
\* (the table's previous event list is a prefix of its new one, and so is the
\* event list of a hand that stays in progress), and when a hand completes the
\* table's event list equals its previous event list followed by the hand's
\* full event list in the hand's own insertion order.
C27_EventLogAppendOnly ==
    [][ /\ isPrefix(table.events, table'.events)
        /\ (IsSome(table.currentHand) /\ IsSome(table'.currentHand)) =>
               isPrefix(table.currentHand[1].events, table'.currentHand[1].events)
        /\ handCompletedStep =>
               /\ isPrefix(table.currentHand[1].events, hand'.events)
               /\ Len(hand'.events) > Len(table.currentHand[1].events)
               /\ table'.events = table.events \o hand'.events ]_vars

\* A hand has completed and its events follow the seating events in the
\* table's log.
C27_HandEventsMerged ==
    /\ IsNone(table.currentHand)
    /\ table.handCount >= 1
    /\ lastResult.kind = "ok"
    /\ "seat" \in DOMAIN lastResult
    /\ Len(hand.events) >= 4
    /\ Len(table.events) > Len(hand.events)
    /\ SubSeq(table.events, Len(table.events) - Len(hand.events) + 1, Len(table.events))
         = hand.events
    /\ table.events[1].tag = "PlayerSatDown"

\* C28: turn enforcement -- an action submitted by any seat other than the
\* current active player is rejected with NotPlayersTurn carrying the
\* submitting seat and the expected seat (the current active player), whether
\* or not the action itself would be legal; the betting round and the hand
\* both answer so.
C28_TurnEnforcement ==
    IsSome(handActivePlayer(hand)) =>
        LET round == hand.bettingRound[1]
            expected == round.activeSeatOrder[round.activeIndex + 1]
        IN  \A seat \in Seats \ { expected } : \A action \in ActionChoices :
                LET rejection == [ tag |-> "Left",
                                   error |-> [ tag |-> "NotPlayersTurn",
                                               seat |-> seat,
                                               expectedSeat |-> expected ] ]
                IN  /\ applyAction(round, seat, action) = rejection
                    /\ handAct(hand, seat, action, DefaultRanks) = rejection

\* A player still in the hand called out of turn and was told whose turn it is.
C28_OutOfTurnRejected ==
    /\ lastResult.kind = "error"
    /\ lastResult.error.tag = "NotPlayersTurn"
    /\ IsSome(handActivePlayer(hand))
    /\ lastResult.error.expectedSeat = handActivePlayer(hand)[1]
    /\ lastResult.error.seat # lastResult.error.expectedSeat
    /\ hasPlayer(hand.players, lastResult.error.seat)
    /\ ~findPlayer(hand.players, lastResult.error.seat).isFolded

\* The seated players who have chips.
fundedSeats == { s \in DOMAIN table.seats : table.seats[s].chips > 0 }

\* C29: start_next_hand fails with HandInProgress if the table has a current
\* hand, and otherwise fails with NotEnoughPlayers if fewer than 2 seated
\* players have chips > 0; in every other case it succeeds and the started
\* hand contains exactly the seated players with chips > 0.
C29_StartNextHandOutcome ==
    LET result == startNextHand(table) IN
    IF IsSome(table.currentHand)
    THEN result = [ tag |-> "Left", error |-> [ tag |-> "HandInProgress" ] ]
    ELSE IF Cardinality(fundedSeats) < 2
    THEN /\ result.tag = "Left"
         /\ result.error.tag = "NotEnoughPlayers"
    ELSE /\ result.tag = "Right"
         /\ IsSome(result.state.currentHand)
         /\ LET players == result.state.currentHand[1].players IN
            /\ Len(players) = Cardinality(fundedSeats)
            /\ { players[i].seatIndex : i \in 1 .. Len(players) } = fundedSeats

\* A hand was started at a table where a seated player has no chips, and that
\* player was left out of it.
C29_StartedWithoutBrokeSeat ==
    /\ lastResult.kind = "ok"
    /\ "op" \in DOMAIN lastResult
    /\ lastResult.op = "startNextHand"
    /\ IsSome(table.currentHand)
    /\ \E s \in DOMAIN table.seats : table.seats[s].chips = 0
    /\ { hand.players[i].seatIndex : i \in 1 .. Len(hand.players) } = fundedSeats
    /\ Cardinality(fundedSeats) = 2

\* Every PlayerActed event of the session: the table's log and the log of the
\* hand in progress.
sessionActs(t) ==
    countEvents(t.events, "PlayerActed")
      + (IF IsSome(t.currentHand) THEN countEvents(t.currentHand[1].events, "PlayerActed")
         ELSE 0)

\* C30: game-loop fallback -- when the action chosen by the strategy is
\* rejected, the loop applies default_action for that turn; if default_action
\* is also rejected, it tries Check, then Call, then Fold; so exactly one
\* action is applied for the turn, by the seat whose turn it is, and no answer
\* of the strategy makes the turn end with an error or with the table
\* unchanged.
C30_LoopFallback ==
    IsSome(getActivePlayer(table)) =>
        \A chosen \in StrategyChoices : \A defaultAction \in DefaultActionChoices :
            LET before == table.currentHand[1]
                seat == handActivePlayer(before)[1]
                accepted(a) == handAct(before, seat, a, DefaultRanks).tag = "Right"
                default == IF defaultAction = << >> THEN Fold ELSE defaultAction[1]
                applied == IF accepted(chosen) THEN chosen
                           ELSE IF accepted(default) THEN default
                           ELSE IF accepted(Check) THEN Check
                           ELSE IF accepted(Call) THEN Call
                           ELSE Fold
                turn == loopTurn(table, chosen, defaultAction, DefaultRanks)
            IN  /\ turn.tag = "Right"
                /\ turn.action = applied
                /\ turn.state = tableAct(table, seat, applied, DefaultRanks).state
                /\ sessionActs(turn.state) = sessionActs(table) + 1
                /\ turn.state # table

\* The strategy's answer and the default action were both rejected by a player
\* facing a bet, and the loop called for that player.
C30_FellBackToCall ==
    /\ lastResult.kind = "ok"
    /\ "op" \in DOMAIN lastResult
    /\ lastResult.op = "loopTurn"
    /\ lastResult.attempt = 3
    /\ lastResult.action = Call
    /\ IsSome(table.currentHand)
    /\ table.currentHand[1].events[Len(table.currentHand[1].events)]
         = PlayerActed(lastResult.seat, Call)

\* The seat has put chips in during the hand: a blind of at least one chip or
\* an accepted Call, Bet, Raise or AllIn is in the hand's log.
hasCommitted(h, seat) ==
    \E i \in 1 .. Len(h.events) :
        LET e == h.events[i] IN
        \/ /\ e.tag = "BlindsPosted"
           /\ \/ (e.smallBlind.seat = seat /\ e.smallBlind.amount > 0)
              \/ (e.bigBlind.seat = seat /\ e.bigBlind.amount > 0)
        \/ /\ e.tag = "PlayerActed"
           /\ e.seat = seat
           /\ e.action.tag \in { "Call", "Bet", "Raise", "AllIn" }

\* C31: all-in flag -- in every reachable hand state, a player's is_all_in
\* flag is true if and only if the player's chips are 0 and the player has
\* committed chips in this hand.
C31_AllInFlag ==
    \A i \in 1 .. Len(hand.players) :
        LET p == hand.players[i] IN
        p.isAllIn <=> (p.chips = 0 /\ hasCommitted(hand, p.seatIndex))

\* A player who was all-in has been awarded a pot: the stack is positive and
\* the flag is still set.
C31_AllInWinnerKeepsFlag ==
    /\ hand.phase = "Complete"
    /\ \E i \in 1 .. Len(hand.players) :
          /\ hand.players[i].isAllIn
          /\ hand.players[i].chips > 0
          /\ hasCommitted(hand, hand.players[i].seatIndex)

\* The queue of a betting round holds no seat twice, and only seats whose
\* player is not folded, not all-in and has chips.
queueWellFormed(round) ==
    /\ \A i, j \in 1 .. Len(round.activeSeatOrder) :
          round.activeSeatOrder[i] = round.activeSeatOrder[j] => i = j
    /\ \A i \in 1 .. Len(round.activeSeatOrder) :
          /\ hasPlayer(round.players, round.activeSeatOrder[i])
          /\ LET p == getPlayer(round, round.activeSeatOrder[i]) IN
             ~p.isFolded /\ ~p.isAllIn /\ p.chips > 0

\* C32: active queue membership -- in every reachable betting-round state
\* (the round a hand holds and the round applyAction returned), active_queue
\* has no duplicates and holds only seats whose player is not folded, not
\* all-in and has chips > 0; a seat that folded, went AllIn, or became all-in
\* through a Call, Bet or Raise is absent from the queue of the resulting state.
C32_ActiveQueueMembership ==
    /\ (hand.phase # "NoHand" /\ IsSome(hand.bettingRound)) =>
           queueWellFormed(hand.bettingRound[1])
    /\ (IsSome(lastRound) /\ lastResult.kind = "ok") =>
           /\ queueWellFormed(lastRound[1])
           /\ LET p == getPlayer(lastRound[1], lastResult.seat) IN
              (lastResult.action.tag \in { "Fold", "AllIn" } \/ p.isAllIn)
                  => lastResult.seat \notin Range(lastRound[1].activeSeatOrder)

\* A Raise took the raiser's last chip, the round went on without that seat.
C32_RaisedAllInLeftQueue ==
    /\ IsSome(lastRound)
    /\ lastResult.kind = "ok"
    /\ lastResult.action.tag = "Raise"
    /\ getPlayer(lastRound[1], lastResult.seat).isAllIn
    /\ ~lastRound[1].isComplete
    /\ Len(lastRound[1].activeSeatOrder) >= 1
    /\ lastResult.seat \notin Range(lastRound[1].activeSeatOrder)

\* C33 as stated: betting-round termination -- for a betting round created
\* over N players (biggest_bet 0), any sequence of legal simple actions taken
\* by the successive active players makes the round complete within N * 4
\* actions: a round still open has an active player and fewer than N * 4
\* actions behind it.
C33_CompleteWithinFourN ==
    /\ hand.actionCount <= hand.numPlayers * 4
    /\ ~lastRound[1].isComplete =>
          /\ IsSome(activePlayer(lastRound[1]))
          /\ hand.actionCount < hand.numPlayers * 4

\* C33 amended: the round completes within N * (N + 1) / 2 actions, which is
\* within N * 4 for rounds of up to seven players.
C33_CompleteWithinTriangle ==
    /\ hand.actionCount <= (hand.numPlayers * (hand.numPlayers + 1)) \div 2
    /\ ~lastRound[1].isComplete =>
          /\ IsSome(activePlayer(lastRound[1]))
          /\ hand.actionCount < (hand.numPlayers * (hand.numPlayers + 1)) \div 2
    /\ hand.numPlayers <= 7 => hand.actionCount <= hand.numPlayers * 4

\* A round of eight players has completed after more than 32 actions.
C33_LongRoundCompleted ==
    /\ hand.phase = "Round"
    /\ hand.numPlayers = 8
    /\ lastRound[1].isComplete
    /\ hand.actionCount > 32

\* playOneHand has returned its result for the table as it stands.
loopReturned ==
    /\ lastResult.kind = "ok"
    /\ "op" \in DOMAIN lastResult
    /\ lastResult.op = "playOneHand"

\* C34: whenever the game loop's playHand/playOneHand returns a result with
\* completed = true, the hand is really over: the returned table state has no
\* current hand.
C34_CompletedMeansHandOver ==
    (loopReturned /\ lastResult.completed) => IsNone(table.currentHand)

\* The loop returned completed = true for a table whose hand is still in its
\* preflop phase with chips in front of the players.
C34_CompletedOnOpenHand ==
    /\ loopReturned
    /\ lastResult.completed
    /\ IsSome(table.currentHand)
    /\ table.currentHand[1].phase = "Preflop"
    /\ totalBets(table.currentHand[1].players) > 0

\* C35: no stuck hand -- whenever a table has a current hand (a hand whose
\* phase is not Complete), get_active_player returns a seat, so a driver that
\* keeps acting while an active player exists never stops on an unfinished
\* hand.
C35_NoStuckHand ==
    IsSome(table.currentHand) =>
        /\ table.currentHand[1].phase # "Complete"
        /\ IsSome(getActivePlayer(table))

\* The table holds a hand that is not Complete, nobody is asked to act, and a
\* driver has no call left that the table accepts.
C35_UnfinishedHandNobodyToAct ==
    /\ IsSome(table.currentHand)
    /\ table.currentHand[1].phase # "Complete"
    /\ IsNone(getActivePlayer(table))
    /\ \A seat \in Seats : \A action \in ActionChoices :
          tableAct(table, seat, action, DefaultRanks).tag = "Left"

\* Every action taken so far in the hand is a Call.
onlyCallsSoFar(h) ==
    \A i \in 1 .. Len(h.events) :
        h.events[i].tag = "PlayerActed" => h.events[i].action = Call

\* The seat has acted in the hand.
seatHasActed(h, seat) ==
    \E i \in 1 .. Len(h.events) :
        h.events[i].tag = "PlayerActed" /\ h.events[i].seat = seat

\* The preflop round of the hand is over: the hand has left the phase or its
\* round is marked complete.
preflopRoundOver(h) ==
    \/ h.phase # "Preflop"
    \/ IsNone(h.bettingRound)
    \/ h.bettingRound[1].isComplete

\* C36 as stated: big-blind option -- in a preflop round with three or more
\* players where every player acting before the big blind only calls, the
\* round does not complete until the big blind seat has itself acted.
C36_RoundWaitsForBigBlind ==
    ( /\ Len(hand.players) >= 3
      /\ onlyCallsSoFar(hand)
      /\ ~seatHasActed(hand, blindsPosted(hand).bigBlind.seat) )
        => ~preflopRoundOver(hand)

\* C36 amended: the same when the big blind still has chips after posting; a
\* big blind that is all-in on the blind has no option, and the round
\* completes without it.
C36_BigBlindOption ==
    ( /\ Len(hand.players) >= 3
      /\ onlyCallsSoFar(hand)
      /\ ~seatHasActed(hand, blindsPosted(hand).bigBlind.seat)
      /\ ~findPlayer(hand.players, blindsPosted(hand).bigBlind.seat).isAllIn )
        => /\ ~preflopRoundOver(hand)
           /\ IsSome(handActivePlayer(hand))

\* The two players before the big blind have called and the big blind is the
\* one asked to act, with the option to check.
C36_BigBlindAskedAfterCalls ==
    /\ Len(hand.players) = 3
    /\ onlyCallsSoFar(hand)
    /\ numActions(hand) = 2
    /\ hand.phase = "Preflop"
    /\ handActivePlayer(hand) = Some(blindsPosted(hand).bigBlind.seat)
    /\ handGetLegalActions(hand)[1].canCheck

\* The highest current bet among the players of a betting round.
maxCurrentBet(round) ==
    LET bets == { round.players[i].currentBet : i \in 1 .. Len(round.players) } IN
    CHOOSE m \in bets : \A b \in bets : b <= m

\* C37: in every reachable betting-round state of a hand (from blind posting
\* onward: the round the hand holds and the round applyAction returned),
\* biggest_bet equals the maximum current_bet over all players, so no player's
\* current_bet ever exceeds biggest_bet.
C37_BiggestBetIsMaxBet ==
    /\ (hand.phase # "NoHand" /\ IsSome(hand.bettingRound)) =>
           hand.bettingRound[1].biggestBet = maxCurrentBet(hand.bettingRound[1])
    /\ IsSome(lastRound) =>
           lastRound[1].biggestBet = maxCurrentBet(lastRound[1])

\* A hand has just started with the small blind's bet above biggest_bet: the
\* big blind was short and posted less than the small blind.
C37_SmallBlindAboveBiggestBet ==
    /\ justStarted(hand)
    /\ IsSome(hand.bettingRound)
    /\ blindsPosted(hand).bigBlind.amount < blindsPosted(hand).smallBlind.amount
    /\ findPlayer(hand.players, blindsPosted(hand).smallBlind.seat).currentBet
         > hand.bettingRound[1].biggestBet

\* The first seat after `actor` in the cyclic order of `queue` that is in
\* `remaining`.
firstFollowing(queue, actor, remaining) ==
    LET n == Len(queue)
        at(k) == queue[((IndexOf(queue, actor) + k) % n) + 1]
    IN  at(SetMin({ k \in 1 .. n : at(k) \in remaining }))

\* C38: turn order -- after any successful action that does not complete the
\* round, the new active player is the first seat following the actor in the
\* cyclic order of active_queue that is still in the queue (wrapping around),
\* whether or not the actor was removed from the queue by the action.
C38_TurnOrder ==
    [][ (lastResult'.kind = "ok" /\ ~lastRound'[1].isComplete) =>
          LET before == hand.bettingRound[1]
              after == lastRound'[1]
          IN  /\ activePlayer(before) = Some(lastResult'.seat)
              /\ activePlayer(after)
                   = Some(firstFollowing(before.activeSeatOrder, lastResult'.seat,
                                         Range(after.activeSeatOrder))) ]_vars

\* The actor left the queue by its action and the turn went to the seat at the
\* head of a queue that still holds two seats.
C38_WrappedAfterRemoval ==
    /\ IsSome(lastRound)
    /\ lastResult.kind = "ok"
    /\ ~lastRound[1].isComplete
    /\ lastResult.seat \notin Range(lastRound[1].activeSeatOrder)
    /\ Len(lastRound[1].activeSeatOrder) = 2
    /\ lastRound[1].activeIndex = 0
    /\ \A i \in 1 .. 2 : lastRound[1].activeSeatOrder[i] # lastResult.seat
    /\ Len(actionsTaken(hand)) >= 3

\* The step completes the hand.
handCompletingStep ==
    /\ lastResult'.kind = "ok"
    /\ hand.phase # "Complete"
    /\ hand'.phase = "Complete"

\* The PotAwarded events of a hand's log.
potAwards(h) == SelectSeq(h.events, LAMBDA e : e.tag = "PotAwarded")

\* C39: no award to a folded player -- in every completed hand, every
\* PotAwarded event and every chip credit made when pots are awarded goes to a
\* seat whose player is not folded and which is in that pot's eligible set.
C39_AwardsToEligibleSeats ==
    [][ handCompletingStep =>
          LET pots == collectBets(lastRound'[1].players, hand.pots).pots
              awards == potAwards(hand')
          IN  /\ \A k \in 1 .. Len(awards) :
                    /\ ~findPlayer(hand'.players, awards[k].seat).isFolded
                    /\ awards[k].potIndex + 1 \in 1 .. Len(pots)
                    /\ awards[k].seat \in Range(pots[awards[k].potIndex + 1].eligibleSeats)
              /\ \A i \in 1 .. Len(hand'.players) :
                    hand'.players[i].chips > lastRound'[1].players[i].chips =>
                        /\ ~hand'.players[i].isFolded
                        /\ \E k \in 1 .. Len(pots) :
                              hand'.players[i].seatIndex \in Range(pots[k].eligibleSeats) ]_vars

\* A hand ended by folds during the preflop round, and a pot was awarded to a
\* seat that is not in the pot's eligible set.
C39_PotToIneligibleSeat ==
    /\ hand.phase = "Complete"
    /\ IsSome(lastRound)
    /\ lastRound[1].name = "Preflop"
    /\ countEvents(hand.events, "ShowdownStarted") = 0
    /\ LET pots == collectBets(lastRound[1].players, << >>).pots
           awards == potAwards(hand)
       IN  \E k \in 1 .. Len(awards) :
              /\ awards[k].potIndex + 1 \in 1 .. Len(pots)
              /\ awards[k].seat \notin Range(pots[awards[k].potIndex + 1].eligibleSeats)
              /\ ~findPlayer(hand.players, awards[k].seat).isFolded

\* The betting fields of a player.
bettingFields(p) ==
    [ seat |-> p.seatIndex, chips |-> p.chips, currentBet |-> p.currentBet,
      isFolded |-> p.isFolded, isAllIn |-> p.isAllIn ]

\* C40: frame of a betting action -- a successful action by seat s that does
\* not complete the round leaves every other player's chips, current_bet,
\* folded flag and all-in flag unchanged, and a successful Check changes no
\* player's chips, current_bet or flags and leaves biggest_bet and min_raise
\* unchanged.
C40_ActionFrame ==
    [][ lastResult'.kind = "ok" =>
          LET before == hand.bettingRound[1]
              after == lastRound'[1]
          IN  /\ Len(after.players) = Len(before.players)
              /\ ~after.isComplete =>
                    \A i \in 1 .. Len(before.players) :
                        before.players[i].seatIndex # lastResult'.seat =>
                            bettingFields(after.players[i]) = bettingFields(before.players[i])
              /\ lastResult'.action = Check =>
                    /\ \A i \in 1 .. Len(before.players) :
                          bettingFields(after.players[i]) = bettingFields(before.players[i])
                    /\ after.biggestBet = before.biggestBet
                    /\ after.minRaise = before.minRaise ]_vars

\* A Raise in a three-player round that stays open, made while the other two
\* players have bets out.
C40_RaiseAmongBets ==
    /\ IsSome(lastRound)
    /\ lastResult.kind = "ok"
    /\ lastResult.action.tag = "Raise"
    /\ ~lastRound[1].isComplete
    /\ Len(lastRound[1].players) = 3
    /\ \A i \in 1 .. 3 : lastRound[1].players[i].currentBet > 0

====
